---- MODULE Spec2Model ----
(***************************************************************************)
(* R_DNS: a recursive DNS resolver with a bounded FIFO cache.              *)
(*                                                                         *)
(* Text (String) is a sequence of character codes, a byte is 0..255, and   *)
(* a [u8; 512] frame is the sequence of its bytes up to the last non-zero  *)
(* one (the bytes after it are 0).                                         *)
(***************************************************************************)
EXTENDS Integers, Sequences, FiniteSets, TLC

(***************************************************************************)
(* Bit operations on unsigned integers                                     *)
(***************************************************************************)
RECURSIVE BitOr(_, _)
BitOr(a, b) ==
    IF a = 0 THEN b
    ELSE IF b = 0 THEN a
    ELSE (IF (a % 2 = 1) \/ (b % 2 = 1) THEN 1 ELSE 0) + 2 * BitOr(a \div 2, b \div 2)

RECURSIVE BitAnd(_, _)
BitAnd(a, b) ==
    IF a = 0 \/ b = 0 THEN 0
    ELSE (IF (a % 2 = 1) /\ (b % 2 = 1) THEN 1 ELSE 0) + 2 * BitAnd(a \div 2, b \div 2)

RECURSIVE BitXor(_, _)
BitXor(a, b) ==
    IF a = 0 THEN b
    ELSE IF b = 0 THEN a
    ELSE (IF (a % 2) # (b % 2) THEN 1 ELSE 0) + 2 * BitXor(a \div 2, b \div 2)

(***************************************************************************)
(* Text helpers: str::split, u16 Debug formatting, str::parse::<u16>       *)
(***************************************************************************)
\* s.split(sep): the pieces between separators; never empty ("" gives [""])
Split(s, sep) ==
    LET seps == {i \in 1..Len(s) : s[i] = sep}
        \* the place of the k-th separator; 0 and Len(s) + 1 bound the string
        cut(k) == IF k = 0 THEN 0
                  ELSE IF k > Cardinality(seps) THEN Len(s) + 1
                  ELSE CHOOSE i \in seps : Cardinality({j \in seps : j < i}) = k - 1
    IN  [k \in 1..(Cardinality(seps) + 1) |-> SubSeq(s, cut(k - 1) + 1, cut(k) - 1)]

RECURSIVE Decimal(_)
\* format!("{:?}", n) of an unsigned integer
Decimal(n) == IF n < 10 THEN <<48 + n>> ELSE Append(Decimal(n \div 10), 48 + (n % 10))

RECURSIVE DigitsValue(_)
DigitsValue(s) ==
    IF s = <<>> THEN 0 ELSE 10 * DigitsValue(SubSeq(s, 1, Len(s) - 1)) + (s[Len(s)] - 48)

\* s.parse::<u16>(): <<n>> on success, <<>> on a ParseIntError
parse_u16(s) ==
    LET d == IF s # <<>> /\ s[1] = 43 THEN Tail(s) ELSE s
    IN  IF d = <<>> \/ (\E i \in 1..Len(d) : d[i] < 48 \/ d[i] > 57) THEN <<>>
        ELSE IF Len(d) > 5 /\ (\E i \in 1..(Len(d) - 5) : d[i] # 48) THEN <<>>
        ELSE LET v == DigitsValue(SubSeq(d, IF Len(d) > 5 THEN Len(d) - 4 ELSE 1, Len(d)))
             IN  IF v > 65535 THEN <<>> ELSE <<v>>

(***************************************************************************)
(* QueryType and ResultCode (utils/query_type.rs, utils/result_code.rs)    *)
(***************************************************************************)
QT_A == [tag |-> "A", num |-> 1]
QT_NS == [tag |-> "NS", num |-> 2]
QT_CNAME == [tag |-> "CNAME", num |-> 5]
QT_MX == [tag |-> "MX", num |-> 15]
QT_AAAA == [tag |-> "AAAA", num |-> 28]
QT_UNKNOWN(n) == [tag |-> "UNKNOWN", num |-> n]

QueryType_to_num(q) == q.num

QueryType_from_num(n) ==
    CASE n = 1 -> QT_A
      [] n = 2 -> QT_NS
      [] n = 5 -> QT_CNAME
      [] n = 15 -> QT_MX
      [] n = 28 -> QT_AAAA
      [] OTHER -> QT_UNKNOWN(n)

ResultCode_to_num(r) ==
    CASE r = "NOERROR" -> 0
      [] r = "FORMERR" -> 1
      [] r = "SERVFAIL" -> 2
      [] r = "NXDOMAIN" -> 3
      [] r = "NOTIMP" -> 4
      [] r = "REFUSED" -> 5

ResultCode_from_num(n) ==
    CASE n = 1 -> "FORMERR"
      [] n = 2 -> "SERVFAIL"
      [] n = 3 -> "NXDOMAIN"
      [] n = 4 -> "NOTIMP"
      [] n = 5 -> "REFUSED"
      [] OTHER -> "NOERROR"

(***************************************************************************)
(* ByteBuffer (utils/byte_buffer.rs)                                       *)
(***************************************************************************)
FrameSize == 512

\* F applied to the value of e. The value is computed once, where a name
\* defined by LET is computed again wherever it is used.
With(e, F(_)) == CHOOSE r \in {F(x) : x \in {e}} : TRUE

\* the representation of a frame: its bytes without the trailing zeros
Trim(s) ==
    LET used == {i \in 1..Len(s) : s[i] # 0}
    IN  IF used = {} THEN <<>>
        ELSE SubSeq(s, 1, CHOOSE i \in used : \A j \in used : j <= i)

\* buffer[i]
Frame_get(buffer, i) == IF i < Len(buffer) THEN buffer[i + 1] ELSE 0

\* buffer[i] = v
Frame_set(buffer, i, v) ==
    IF i < Len(buffer) THEN Trim([buffer EXCEPT ![i + 1] = v])
    ELSE IF v = 0 THEN buffer
    ELSE buffer \o [j \in 1..(i - Len(buffer)) |-> 0] \o <<v>>

ByteBuffer_new == [buffer |-> <<>>, position |-> 0]

\* consecutive write(x)? calls: the bytes that fit below position 512 are
\* stored, each as u8, and the first that does not fit is the Err
ByteBuffer_write_all(buf, data) ==
    With(<<buf, data>>, LAMBDA a :
        LET b     == a[1]
            bytes == a[2]
            room  == IF b.position >= FrameSize THEN 0 ELSE FrameSize - b.position
            n     == IF Len(bytes) <= room THEN Len(bytes) ELSE room
            last  == IF Len(b.buffer) > b.position + n THEN Len(b.buffer)
                     ELSE b.position + n
        IN  [ok |-> n = Len(bytes),
             b |-> [buffer |-> Trim([i \in 1..last |->
                                       IF i > b.position /\ i <= b.position + n
                                       THEN bytes[i - b.position] % 256
                                       ELSE Frame_get(b.buffer, i - 1)]),
                    position |-> b.position + n]])

\* ByteBuffer::write: Err and no change at position >= 512
ByteBuffer_write(b, val) == ByteBuffer_write_all(b, <<val>>)

ByteBuffer_write_u8(b, val) == ByteBuffer_write(b, val)

\* the bytes write_u16 and write_u32 hand to write, most significant first
u16_bytes(val) == <<val \div 256, val>>

u32_bytes(val) == <<val \div 16777216, val \div 65536, val \div 256, val>>

ByteBuffer_write_u16(b, val) == ByteBuffer_write_all(b, u16_bytes(val))

ByteBuffer_write_u32(b, val) == ByteBuffer_write_all(b, u32_bytes(val))

RECURSIVE parts_bytes(_)
\* for part in qname.split("."): the length as u8, then each char as u8
parts_bytes(parts) ==
    IF parts = <<>> THEN <<>>
    ELSE <<Len(Head(parts))>> \o Head(parts) \o parts_bytes(Tail(parts))

\* the bytes write_qname hands to write_u8: the parts, then a zero
qname_bytes(qname) == parts_bytes(Split(qname, 46)) \o <<0>>

ByteBuffer_write_qname(b, qname) == ByteBuffer_write_all(b, qname_bytes(qname))

\* ByteBuffer::set: Err and no change at position >= 512
ByteBuffer_set(buf, position, val) ==
    With(<<buf, position>>, LAMBDA a :
        IF a[2] >= FrameSize THEN [ok |-> FALSE, b |-> a[1]]
        ELSE [ok |-> TRUE,
              b |-> [a[1] EXCEPT !.buffer = Frame_set(a[1].buffer, a[2], val)]])

ByteBuffer_set_u16(buf, position, val) ==
    With(<<ByteBuffer_set(buf, position, (val \div 256) % 256), position, val>>, LAMBDA a :
        IF ~a[1].ok THEN a[1] ELSE ByteBuffer_set(a[1].b, a[2] + 1, a[3] % 256))

\* an io::Error of the codec
Err(kind) == [ok |-> FALSE, err |-> kind]

\* ByteBuffer::from_buffer(&frame)
ByteBuffer_from_buffer(frame) == [buffer |-> frame, position |-> 0]

ByteBuffer_seek(b, position) == [b EXCEPT !.position = position]

ByteBuffer_step(b, steps) == [b EXCEPT !.position = @ + steps]

\* n consecutive read()? calls: Err when one of them is at position >= 512
ByteBuffer_read_n(buf, n) ==
    With(buf, LAMBDA b :
        IF b.position + n > FrameSize THEN Err("BufferOverflow")
        ELSE [ok |-> TRUE,
              val |-> [i \in 1..n |-> Frame_get(b.buffer, b.position + i - 1)],
              b |-> ByteBuffer_step(b, n)])

\* ByteBuffer::read: Err at position >= 512
ByteBuffer_read(buf) ==
    With(ByteBuffer_read_n(buf, 1), LAMBDA r :
        IF ~r.ok THEN r ELSE [ok |-> TRUE, val |-> r.val[1], b |-> r.b])

\* ByteBuffer::get: Err at position >= 512
ByteBuffer_get(b, position) ==
    With(position, LAMBDA p :
        IF p >= FrameSize THEN Err("BufferOverflow")
        ELSE [ok |-> TRUE, val |-> Frame_get(b.buffer, p)])

\* ByteBuffer::get_range_: Err when start >= 512 or end >= 512
ByteBuffer_get_range_(b, start, end) ==
    With(<<b.buffer, start, end>>, LAMBDA a :
        IF a[2] >= FrameSize \/ a[3] >= FrameSize THEN Err("BufferOverflow")
        ELSE [ok |-> TRUE,
              val |-> [i \in 1..(a[3] - a[2]) |-> Frame_get(a[1], a[2] + i - 1)]])

ByteBuffer_get_range(b, start, len) ==
    With(start, LAMBDA s : ByteBuffer_get_range_(b, s, s + len))

ByteBuffer_read_u16(buf) ==
    With(ByteBuffer_read_n(buf, 2), LAMBDA r :
        IF ~r.ok THEN r
        ELSE [ok |-> TRUE, val |-> r.val[1] * 256 + r.val[2], b |-> r.b])

ByteBuffer_read_u32(buf) ==
    With(ByteBuffer_read_n(buf, 4), LAMBDA r :
        IF ~r.ok THEN r
        ELSE [ok |-> TRUE,
              val |-> ((r.val[1] * 256 + r.val[2]) * 256 + r.val[3]) * 256 + r.val[4],
              b |-> r.b])

\* from_utf8_lossy(bytes) without to_lowercase()
to_lowercase_keeps_case(bytes) == bytes

\* String::from_utf8_lossy(bytes).to_lowercase() for ASCII bytes; a byte
\* above 127 stands for the replacement character it decodes to
to_lowercase(bytes) ==
    With(bytes, LAMBDA s :
        [i \in 1..Len(s) |->
            IF s[i] >= 65 /\ s[i] <= 90 THEN s[i] + 32
            ELSE IF s[i] >= 128 THEN 65533
            ELSE s[i]])

\* a limit one jump below the limit of read_qname
max_jumps_four == 5 - 1

max_jumps == 5

RECURSIVE read_qname_loop(_)
\* the loop of read_qname and the seek after it; s holds self (b) and the
\* locals position, jump, jumps, out and delim
read_qname_loop(state) ==
    With(state, LAMBDA s :
        IF s.position >= FrameSize THEN Err("BufferOverflow")
        ELSE With(Frame_get(s.b.buffer, s.position), LAMBDA len :
            IF s.jumps > max_jumps THEN Err("MalformedName")
            ELSE IF BitAnd(len, 192) = 192
            THEN IF s.position + 1 >= FrameSize THEN Err("BufferOverflow")
                 ELSE read_qname_loop(
                        [s EXCEPT !.b = IF ~s.jump THEN ByteBuffer_seek(s.b, s.position + 2)
                                        ELSE s.b,
                                  !.position = BitXor(len, 192) * 256
                                               + Frame_get(s.b.buffer, s.position + 1),
                                  !.jump = TRUE,
                                  !.jumps = s.jumps + 1])
            ELSE IF len = 0
            THEN [ok |-> TRUE, val |-> s.out,
                  b |-> IF ~s.jump THEN ByteBuffer_seek(s.b, s.position + 1) ELSE s.b]
            ELSE With(ByteBuffer_get_range(s.b, s.position + 1, len), LAMBDA part :
                    IF ~part.ok THEN part
                    ELSE read_qname_loop(
                           [s EXCEPT !.position = s.position + 1 + len,
                                     !.out = s.out \o s.delim \o to_lowercase(part.val),
                                     !.delim = <<46>>]))))

\* ByteBuffer::read_qname(&mut out) with out empty
ByteBuffer_read_qname(buf) ==
    With(buf, LAMBDA b :
        read_qname_loop([b |-> b, position |-> b.position, jump |-> FALSE, jumps |-> 0,
                         out |-> <<>>, delim |-> <<>>]))

(***************************************************************************)
(* DnsHeader, DnsQuestion, DnsRecord, DnsPacket: encoding                  *)
(***************************************************************************)
DnsHeader_new ==
    [id |-> 0, recursion_desired |-> FALSE, truncated_message |-> FALSE,
     authoritative_answer |-> FALSE, opcode |-> 0, response |-> FALSE,
     rescode |-> "NOERROR", checking_disabled |-> FALSE, authed_data |-> FALSE,
     z |-> FALSE, recursion_available |-> FALSE,
     questions |-> 0, answers |-> 0, authoritative_entries |-> 0,
     resource_entries |-> 0]

Bit(flag, n) == IF flag THEN 2 ^ n ELSE 0

\* Every write's Result is dropped (let _ =) and every write goes through
\* ByteBuffer::write, which stores nothing once position is 512: a run of
\* writes stores the bytes that fit, which is write_all of the bytes in order.
DnsHeader_write(h, b) ==
    LET a  == BitOr(BitOr(BitOr(BitOr(Bit(h.recursion_desired, 0),
                                      Bit(h.truncated_message, 1)),
                                Bit(h.authoritative_answer, 2)),
                          (h.opcode * 8) % 256),
                    Bit(h.response, 7))
        bb == BitOr(BitOr(BitOr(BitOr(ResultCode_to_num(h.rescode),
                                      Bit(h.checking_disabled, 4)),
                                Bit(h.authed_data, 5)),
                          Bit(h.z, 6)),
                    Bit(h.recursion_available, 7))
    IN  ByteBuffer_write_all(b, u16_bytes(h.id) \o u16_bytes(BitOr(a * 256, bb))
                                \o u16_bytes(h.questions) \o u16_bytes(h.answers)
                                \o u16_bytes(h.authoritative_entries)
                                \o u16_bytes(h.resource_entries)).b

DnsQuestion_new(name, qtype) == [name |-> name, qtype |-> qtype]

DnsQuestion_write(q, b) ==
    ByteBuffer_write_all(b, qname_bytes(q.name) \o u16_bytes(QueryType_to_num(q.qtype))
                            \o u16_bytes(1)).b

\* domain, type, class 1, ttl: the start of every written record
Record_write_head(rec, num, b) ==
    ByteBuffer_write_all(b, qname_bytes(rec.domain) \o u16_bytes(num) \o u16_bytes(1)
                            \o u32_bytes(rec.ttl)).b

\* RDLENGTH, written as 0 at start, is set to position - (start + 2) as u16
Record_patch_len(start, buf) ==
    With(buf, LAMBDA b : ByteBuffer_set_u16(b, start, (b.position - (start + 2)) % 65536).b)

DnsRecord_write(rec, b) ==
    CASE rec.type = "UNKNOWN" -> b
      [] rec.type = "A" ->
            ByteBuffer_write_all(Record_write_head(rec, QueryType_to_num(QT_A), b),
                                 u16_bytes(4) \o rec.addr).b
      [] rec.type = "NS" ->
            With(Record_write_head(rec, QueryType_to_num(QT_NS), b), LAMBDA b1 :
                Record_patch_len(b1.position,
                    ByteBuffer_write_all(b1, u16_bytes(0) \o qname_bytes(rec.ns)).b))
      [] rec.type = "CNAME" ->
            With(Record_write_head(rec, QueryType_to_num(QT_CNAME), b), LAMBDA b1 :
                Record_patch_len(b1.position,
                    ByteBuffer_write_all(b1, u16_bytes(0) \o qname_bytes(rec.cname)).b))
      [] rec.type = "MX" ->
            With(Record_write_head(rec, QueryType_to_num(QT_MX), b), LAMBDA b1 :
                Record_patch_len(b1.position,
                    ByteBuffer_write_all(b1, u16_bytes(0) \o u16_bytes(rec.preference)
                                             \o qname_bytes(rec.exchange)).b))
      [] rec.type = "AAAA" ->
            ByteBuffer_write_all(Record_write_head(rec, QueryType_to_num(QT_AAAA), b),
                                 u16_bytes(16) \o rec.addr).b

RECURSIVE write_questions(_, _)
write_questions(qs, b) ==
    IF qs = <<>> THEN b
    ELSE With(<<Tail(qs), DnsQuestion_write(Head(qs), b)>>, LAMBDA a :
            write_questions(a[1], a[2]))

RECURSIVE write_records(_, _)
write_records(rs, b) ==
    IF rs = <<>> THEN b
    ELSE With(<<Tail(rs), DnsRecord_write(Head(rs), b)>>, LAMBDA a :
            write_records(a[1], a[2]))

DnsPacket_new ==
    [header |-> DnsHeader_new, questions |-> <<>>, answers |-> <<>>,
     authorities |-> <<>>, resources |-> <<>>]

\* DnsPacket::write: always Ok(()); the buffer after it
DnsPacket_write(packet, b) ==
    With(packet, LAMBDA p :
        write_records(p.resources,
            write_records(p.authorities,
                write_records(p.answers,
                    write_questions(p.questions, DnsHeader_write(p.header, b))))))

(***************************************************************************)
(* DnsHeader, DnsQuestion, DnsRecord, DnsPacket: decoding                  *)
(***************************************************************************)
HasBit(x, n) == (x \div (2 ^ n)) % 2 = 1

DnsHeader_read(b) ==
    With(ByteBuffer_read_n(b, 12), LAMBDA r :
        IF ~r.ok THEN r
        ELSE LET v == r.val
                 a == v[3]
                 f == v[4]
             IN  [ok |-> TRUE, b |-> r.b,
                  val |-> [id |-> v[1] * 256 + v[2],
                           recursion_desired |-> HasBit(a, 0),
                           truncated_message |-> HasBit(a, 1),
                           authoritative_answer |-> HasBit(a, 2),
                           opcode |-> (a \div 8) % 16,
                           response |-> HasBit(a, 7),
                           rescode |-> ResultCode_from_num(f % 16),
                           checking_disabled |-> HasBit(f, 4),
                           authed_data |-> HasBit(f, 5),
                           z |-> HasBit(f, 6),
                           recursion_available |-> HasBit(f, 7),
                           questions |-> v[5] * 256 + v[6],
                           answers |-> v[7] * 256 + v[8],
                           authoritative_entries |-> v[9] * 256 + v[10],
                           resource_entries |-> v[11] * 256 + v[12]]])

DnsQuestion_read(b) ==
    With(ByteBuffer_read_qname(b), LAMBDA r1 :
        IF ~r1.ok THEN r1
        ELSE With(ByteBuffer_read_n(r1.b, 4), LAMBDA r2 :
                IF ~r2.ok THEN r2
                ELSE [ok |-> TRUE, b |-> r2.b,
                      val |-> DnsQuestion_new(r1.val,
                                  QueryType_from_num(r2.val[1] * 256 + r2.val[2]))]))

\* a record read Ok
Read(rec, b) == [ok |-> TRUE, b |-> b, val |-> rec]

\* the variant of DnsRecord::read's match, after domain, type, class, ttl
\* and data_len were read
DnsRecord_read_data(b, domain, qtype, ttl, data_len) ==
    CASE qtype = 1 ->
            With(ByteBuffer_read_n(b, 4), LAMBDA r :
                IF ~r.ok THEN r
                ELSE Read([type |-> "A", domain |-> domain, addr |-> r.val, ttl |-> ttl],
                          r.b))
      [] qtype = 2 ->
            With(ByteBuffer_read_qname(b), LAMBDA r :
                IF ~r.ok THEN r
                ELSE Read([type |-> "NS", domain |-> domain, ns |-> r.val, ttl |-> ttl],
                          r.b))
      [] qtype = 5 ->
            With(ByteBuffer_read_qname(b), LAMBDA r :
                IF ~r.ok THEN r
                ELSE Read([type |-> "CNAME", domain |-> domain, cname |-> r.val,
                           ttl |-> ttl], r.b))
      [] qtype = 15 ->
            With(ByteBuffer_read_u16(b), LAMBDA r1 :
                IF ~r1.ok THEN r1
                ELSE With(ByteBuffer_read_qname(r1.b), LAMBDA r2 :
                        IF ~r2.ok THEN r2
                        ELSE Read([type |-> "MX", domain |-> domain,
                                   preference |-> r1.val, exchange |-> r2.val,
                                   ttl |-> ttl], r2.b)))
      [] qtype = 28 ->
            With(ByteBuffer_read_n(b, 16), LAMBDA r :
                IF ~r.ok THEN r
                ELSE Read([type |-> "AAAA", domain |-> domain, addr |-> r.val,
                           ttl |-> ttl], r.b))
      [] OTHER ->
            Read([type |-> "UNKNOWN", domain |-> domain, qtype |-> qtype,
                  data_len |-> data_len, ttl |-> ttl], b)

DnsRecord_read(b) ==
    With(ByteBuffer_read_qname(b), LAMBDA r1 :
        IF ~r1.ok THEN r1
        ELSE With(ByteBuffer_read_n(r1.b, 10), LAMBDA r2 :
                IF ~r2.ok THEN r2
                ELSE LET v == r2.val
                     IN  DnsRecord_read_data(r2.b, r1.val, v[1] * 256 + v[2],
                             ((v[5] * 256 + v[6]) * 256 + v[7]) * 256 + v[8],
                             v[9] * 256 + v[10])))

RECURSIVE read_questions(_, _, _)
\* for _ in 0..n { question.read(buffer)?; push }
read_questions(b, n, acc) ==
    IF n = 0 THEN [ok |-> TRUE, b |-> b, val |-> acc]
    ELSE With(<<DnsQuestion_read(b), n, acc>>, LAMBDA a :
            IF ~a[1].ok THEN a[1]
            ELSE read_questions(a[1].b, a[2] - 1, Append(a[3], a[1].val)))

RECURSIVE read_records(_, _, _)
\* for _ in 0..n { push(DnsRecord::read(buffer)?) }
read_records(b, n, acc) ==
    IF n = 0 THEN [ok |-> TRUE, b |-> b, val |-> acc]
    ELSE With(<<DnsRecord_read(b), n, acc>>, LAMBDA a :
            IF ~a[1].ok THEN a[1]
            ELSE read_records(a[1].b, a[2] - 1, Append(a[3], a[1].val)))

DnsPacket_from_buffer(b) ==
    With(DnsHeader_read(b), LAMBDA h :
    IF ~h.ok THEN h
    ELSE With(read_questions(h.b, h.val.questions, <<>>), LAMBDA q :
    IF ~q.ok THEN q
    ELSE With(read_records(q.b, h.val.answers, <<>>), LAMBDA an :
    IF ~an.ok THEN an
    ELSE With(read_records(an.b, h.val.authoritative_entries, <<>>), LAMBDA au :
    IF ~au.ok THEN au
    ELSE With(read_records(au.b, h.val.resource_entries, <<>>), LAMBDA ar :
    IF ~ar.ok THEN ar
    ELSE [ok |-> TRUE, b |-> ar.b,
          val |-> [header |-> h.val, questions |-> q.val, answers |-> an.val,
                   authorities |-> au.val, resources |-> ar.val]])))))

(***************************************************************************)
(* The values the calls are made with                                      *)
(***************************************************************************)
MaxCacheSize == 2
MaxTime == 1

\* "a-1", "b-1" (fingerprints of a question) and "c" (a key of the tests' kind)
Keys == {<<97, 45, 49>>, <<98, 45, 49>>, <<99>>}

\* the TTLs in use: 0 (expired a second after it is written) and 1
Ttls == {0, 1}

\* create_test_packet of cache.rs with the name "a"
TestPacket ==
    [DnsPacket_new EXCEPT !.questions = <<DnsQuestion_new(<<97>>, QT_A)>>]

\* an A record for "a" with the address 127.0.0.1
TestAnswer(ttl) == [type |-> "A", domain |-> <<97>>, addr |-> <<127, 0, 0, 1>>, ttl |-> ttl]

\* the packet of test_update_entry: create_test_packet with an answer pushed
TestPacketAnswered == [TestPacket EXCEPT !.answers = <<TestAnswer(1)>>]

\* a resolved packet with two answers, of TTL 0 and of TTL 1
TestPacketTwoAnswers == [TestPacket EXCEPT !.answers = <<TestAnswer(0), TestAnswer(1)>>]

\* the packets in use: the tests insert the first and update with the second
Packets == {TestPacket, TestPacketAnswered}

\* what recursive_lookup returns to update_expired: Err, or Ok with a packet
\* that has no answer, one, or two
LookupOutcomes ==
    {[kind |-> "err", packet |-> DnsPacket_new],
     [kind |-> "ok", packet |-> TestPacket],
     [kind |-> "ok", packet |-> TestPacketAnswered],
     [kind |-> "ok", packet |-> TestPacketTwoAnswers]}

\* the frames of the packets above, each computed once by DnsPacket::write
EncodedFrames ==
    [p \in Packets \cup {DnsPacket_new, TestPacketTwoAnswers} |-> DnsPacket_write(p, ByteBuffer_new).buffer]

\* DnsPacket::write_to_bytes; DnsCacheEntry's ByteBuffer::new, write, .buffer
DnsPacket_write_to_bytes(p) ==
    IF p \in DOMAIN EncodedFrames THEN EncodedFrames[p]
    ELSE DnsPacket_write(p, ByteBuffer_new).buffer

(***************************************************************************)
(* DnsCacheEntry and DnsCache (cache/cache.rs)                             *)
(***************************************************************************)

\* DnsCacheEntry::from_packet at wall time t (seconds since the epoch)
DnsCacheEntry_from_packet(packet, ttl, t) ==
    [response |-> DnsPacket_write_to_bytes(packet), expiry |-> t + ttl, ttl |-> ttl]

\* DnsCacheEntry::is_expired at wall time t
is_expired(entry, t) == entry.expiry < t

\* DnsCacheEntry::update at wall time t: the ttl field is not assigned
DnsCacheEntry_update(entry, packet, ttl, t) ==
    [entry EXCEPT !.response = DnsPacket_write_to_bytes(packet), !.expiry = t + ttl]

DnsCache_new(size) == [cache |-> <<>>, order |-> <<>>, max_size |-> size]

\* HashMap::remove
Map_remove(m, key) == [k \in DOMAIN m \ {key} |-> m[k]]

\* HashMap::insert
Map_insert(m, key, v) == [k \in DOMAIN m \cup {key} |-> IF k = key THEN v ELSE m[k]]

\* VecDeque::retain(|x| x != key)
RECURSIVE retain_ne(_, _)
retain_ne(q, key) ==
    IF q = <<>> THEN <<>>
    ELSE IF Head(q) # key THEN <<Head(q)>> \o retain_ne(Tail(q), key)
    ELSE retain_ne(Tail(q), key)

\* DnsCache::insert panics: order.pop_front().unwrap() on an empty queue
DnsCache_insert_panics(c, key) ==
    /\ key \notin DOMAIN c.cache
    /\ Cardinality(DOMAIN c.cache) >= c.max_size
    /\ c.order = <<>>

DnsCache_insert_noevict(c, key, entry) ==
    IF key \in DOMAIN c.cache THEN c
    ELSE [c EXCEPT !.cache = Map_insert(c.cache, key, entry),
                   !.order = Append(c.order, key)]

DnsCache_insert_replace(c, key, entry) ==
    LET full == Cardinality(DOMAIN c.cache) >= c.max_size /\ key \notin DOMAIN c.cache
        c1   == IF full
                THEN [c EXCEPT !.cache = Map_remove(c.cache, Head(c.order)),
                               !.order = Tail(c.order)]
                ELSE c
    IN  [c1 EXCEPT !.cache = Map_insert(c1.cache, key, entry),
                   !.order = IF key \in DOMAIN c.cache THEN c1.order
                             ELSE Append(c1.order, key)]

DnsCache_insert_lifo(c, key, entry) ==
    IF key \in DOMAIN c.cache THEN c
    ELSE LET full == Cardinality(DOMAIN c.cache) >= c.max_size
             n    == Len(c.order)
             c1   == IF full
                     THEN [c EXCEPT !.cache = Map_remove(c.cache, c.order[n]),
                                    !.order = SubSeq(c.order, 1, n - 1)]
                     ELSE c
         IN  [c1 EXCEPT !.cache = Map_insert(c1.cache, key, entry),
                        !.order = Append(c1.order, key)]

\* DnsCache::insert (when it does not panic)
DnsCache_insert(c, key, entry) ==
    IF key \in DOMAIN c.cache THEN c
    ELSE LET full == Cardinality(DOMAIN c.cache) >= c.max_size
             c1   == IF full
                     THEN [c EXCEPT !.cache = Map_remove(c.cache, Head(c.order)),
                                    !.order = Tail(c.order)]
                     ELSE c
         IN  [c1 EXCEPT !.cache = Map_insert(c1.cache, key, entry),
                        !.order = Append(c1.order, key)]

DnsCache_get_keep_order(c, key, t) ==
    IF key \in DOMAIN c.cache
    THEN IF is_expired(c.cache[key], t)
         THEN [c |-> [c EXCEPT !.cache = Map_remove(c.cache, key)], val |-> <<>>]
         ELSE [c |-> c, val |-> <<c.cache[key]>>]
    ELSE [c |-> c, val |-> <<>>]

DnsCache_get_lru(c, key, t) ==
    IF key \in DOMAIN c.cache
    THEN IF is_expired(c.cache[key], t)
         THEN [c |-> [c EXCEPT !.cache = Map_remove(c.cache, key),
                               !.order = retain_ne(c.order, key)],
               val |-> <<>>]
         ELSE [c |-> [c EXCEPT !.order = Append(retain_ne(c.order, key), key)],
               val |-> <<c.cache[key]>>]
    ELSE [c |-> c, val |-> <<>>]

DnsCache_get_serve_stale(c, key, t) ==
    IF key \in DOMAIN c.cache
    THEN [c |-> c, val |-> <<c.cache[key]>>]
    ELSE [c |-> c, val |-> <<>>]

\* DnsCache::get at wall time t: the cache after it and the Option returned
DnsCache_get(c, key, t) ==
    IF key \in DOMAIN c.cache
    THEN IF is_expired(c.cache[key], t)
         THEN [c |-> [c EXCEPT !.cache = Map_remove(c.cache, key),
                               !.order = retain_ne(c.order, key)],
               val |-> <<>>]
         ELSE [c |-> c, val |-> <<c.cache[key]>>]
    ELSE [c |-> c, val |-> <<>>]

DnsCache_update_upsert(c, key, packet, ttl, t) ==
    IF key \in DOMAIN c.cache
    THEN [c EXCEPT !.cache[key] = DnsCacheEntry_update(c.cache[key], packet, ttl, t)]
    ELSE DnsCache_insert(c, key, DnsCacheEntry_from_packet(packet, ttl, t))

\* DnsCache::update at wall time t
DnsCache_update(c, key, packet, ttl, t) ==
    IF key \in DOMAIN c.cache
    THEN [c EXCEPT !.cache[key] = DnsCacheEntry_update(c.cache[key], packet, ttl, t)]
    ELSE c

\* the keys update_expired collects in its first loop
DnsCache_expired_keys(c, t) == {k \in DOMAIN c.cache : is_expired(c.cache[k], t)}

\* the TTL of a record, whatever its variant
DnsRecord_ttl(rec) == rec.ttl

\* update_expired's key.split("-").last().unwrap().parse::<u16>().unwrap() panics
DnsCache_refresh_panics(key) ==
    LET segs == Split(key, 45) IN parse_u16(segs[Len(segs)]) = <<>>

\* the question update_expired re-resolves for a key
DnsCache_refresh_question(key) ==
    LET segs == Split(key, 45)
    IN  DnsQuestion_new(segs[1], QueryType_from_num(parse_u16(segs[Len(segs)])[1]))

\* update_expired with entry.update(&res_packet, entry.ttl)
DnsCache_refresh_key_stored_ttl(c, key, outcome, t) ==
    IF key \notin DOMAIN c.cache THEN c
    ELSE IF outcome.kind # "ok" THEN c
    ELSE IF outcome.packet.answers = <<>> THEN c
    ELSE [c EXCEPT !.cache[key] =
            DnsCacheEntry_update(c.cache[key], outcome.packet, c.cache[key].ttl, t)]

\* update_expired that removes a key whose lookup fails or has no answer
DnsCache_refresh_key_drops_failed(c, key, outcome, t) ==
    IF key \notin DOMAIN c.cache THEN c
    ELSE IF outcome.kind # "ok" \/ outcome.packet.answers = <<>>
    THEN [c EXCEPT !.cache = Map_remove(c.cache, key), !.order = retain_ne(c.order, key)]
    ELSE [c EXCEPT !.cache[key] =
            DnsCacheEntry_update(c.cache[key], outcome.packet,
                                 DnsRecord_ttl(outcome.packet.answers[1]), t)]

\* One round of update_expired's second loop, for an expired key, given what
\* recursive_lookup returned: kind "err" (Err), or "ok" with its packet.
DnsCache_refresh_key(c, key, outcome, t) ==
    IF key \notin DOMAIN c.cache THEN c
    ELSE IF outcome.kind # "ok" THEN c
    ELSE IF outcome.packet.answers = <<>> THEN c
    ELSE [c EXCEPT !.cache[key] =
            DnsCacheEntry_update(c.cache[key], outcome.packet,
                                 DnsRecord_ttl(outcome.packet.answers[1]), t)]

(***************************************************************************)
(* The snapshot (cache/cache.rs): toml::Value, to_toml and from_toml, and  *)
(* the file dns_cache.toml.  A Value is a record of its variant t and its  *)
(* content v; an Option is <<>> (None) or <<x>> (Some(x)).                 *)
(***************************************************************************)
Value_Integer(n) == [t |-> "integer", v |-> n]
Value_String(s) == [t |-> "string", v |-> s]
Value_Array(a) == [t |-> "array", v |-> a]
Value_Table(m) == [t |-> "table", v |-> m]

\* Map::get
Table_get(m, name) == IF name \in DOMAIN m THEN <<m[name]>> ELSE <<>>

\* table.get(name)?.as_integer()?.try_into().ok()? for an unsigned target:
\* None when the field is absent, is no integer or is negative
Table_get_unsigned(m, name) ==
    With(Table_get(m, name), LAMBDA f :
        IF f = <<>> THEN <<>>
        ELSE IF f[1].t # "integer" THEN <<>>
        ELSE IF f[1].v < 0 THEN <<>>
        ELSE <<f[1].v>>)

\* DnsCacheEntry::to_toml: the 512 bytes of response, each an Integer
DnsCacheEntry_to_toml(entry) ==
    With(entry, LAMBDA e :
        Value_Table([response |-> Value_Array([i \in 1..FrameSize |->
                                     Value_Integer(Frame_get(e.response, i - 1))]),
                     expiry |-> Value_Integer(e.expiry),
                     ttl |-> Value_Integer(e.ttl)]))

\* v.as_integer().and_then(|x| x.try_into().ok()).unwrap_or(0) for u8
Value_as_u8_or_0(value) ==
    IF value.t = "integer" /\ value.v >= 0 /\ value.v <= 255 THEN value.v ELSE 0

\* DnsCacheEntry::from_toml
DnsCacheEntry_from_toml(value) ==
    With(value, LAMBDA val :
        IF val.t # "table" THEN <<>>
        ELSE IF Table_get(val.v, "response") = <<>> THEN <<>>
        ELSE IF val.v.response.t # "array" THEN <<>>
        ELSE IF Len(val.v.response.v) # FrameSize THEN <<>>
        ELSE IF Table_get_unsigned(val.v, "expiry") = <<>> THEN <<>>
        ELSE IF Table_get_unsigned(val.v, "ttl") = <<>> THEN <<>>
        ELSE <<[response |-> Trim([i \in 1..FrameSize |->
                                     Value_as_u8_or_0(val.v.response.v[i])]),
                expiry |-> val.v.expiry.v,
                ttl |-> val.v.ttl.v]>>)

\* DnsCache::to_toml
DnsCache_to_toml(c) ==
    With(c, LAMBDA d :
        Value_Table([cache |-> Value_Table([k \in DOMAIN d.cache |->
                                               DnsCacheEntry_to_toml(d.cache[k])]),
                     order |-> Value_Array([i \in 1..Len(d.order) |->
                                               Value_String(d.order[i])]),
                     max_size |-> Value_Integer(d.max_size)]))

\* the strings of the array, last first
strings_of_reversed(a) ==
    With(SelectSeq(a, LAMBDA v : v.t = "string"), LAMBDA s :
        [i \in 1..Len(s) |-> s[Len(s) + 1 - i].v])

\* order's filter_map(|v| v.as_str()): the strings of the array, in order
strings_of(a) ==
    With(SelectSeq(a, LAMBDA v : v.t = "string"), LAMBDA s :
        [i \in 1..Len(s) |-> s[i].v])

\* DnsCache::from_toml with `unwrap_or_default()` in the place of each `?`:
\* a field that is missing or of another type is read as empty
DnsCache_from_toml_defaults(value) ==
    With(value, LAMBDA val :
        IF val.t # "table" THEN <<>>
        ELSE With([k \in (IF Table_get(val.v, "cache") # <<>> /\ val.v.cache.t = "table"
                          THEN DOMAIN val.v.cache.v ELSE {}) |->
                        DnsCacheEntry_from_toml(val.v.cache.v[k])],
                  LAMBDA read :
                    <<[cache |-> [k \in {j \in DOMAIN read : read[j] # <<>>} |-> read[k][1]],
                       order |-> IF Table_get(val.v, "order") # <<>> /\ val.v.order.t = "array"
                                 THEN strings_of(val.v.order.v) ELSE <<>>,
                       max_size |-> IF Table_get_unsigned(val.v, "max_size") # <<>>
                                    THEN val.v.max_size.v ELSE 0]>>))

\* DnsCache::from_toml
DnsCache_from_toml(value) ==
    With(value, LAMBDA val :
        IF val.t # "table" THEN <<>>
        ELSE IF Table_get(val.v, "cache") = <<>> THEN <<>>
        ELSE IF val.v.cache.t # "table" THEN <<>>
        ELSE IF Table_get(val.v, "order") = <<>> THEN <<>>
        ELSE IF val.v.order.t # "array" THEN <<>>
        ELSE IF Table_get_unsigned(val.v, "max_size") = <<>> THEN <<>>
        ELSE With([k \in DOMAIN val.v.cache.v |-> DnsCacheEntry_from_toml(val.v.cache.v[k])],
                  LAMBDA read :
                    <<[cache |-> [k \in {j \in DOMAIN read : read[j] # <<>>} |-> read[k][1]],
                       order |-> strings_of(val.v.order.v),
                       max_size |-> val.v.max_size.v]>>))

\* The file at the path: <<>> when there is none, else <<content>>, where
\* the content is what cannot be read as a string (t = "bytes"), a text
\* that is no TOML document (t = "text"), or the Value a document denotes.
\* DnsCache::load_from_toml: Ok(cache) as <<cache>>, an Err as <<>>
DnsCache_load_from_toml(f) ==
    IF f = <<>> THEN <<>>
    ELSE IF f[1].t \in {"bytes", "text"} THEN <<>>
    ELSE DnsCache_from_toml(f[1])

\* DnsCache::save_to_toml: the file after fs::write
DnsCache_save_to_toml(c) == <<DnsCache_to_toml(c)>>

\* ThreadSafeDnsCache::new: the DnsCache inside the Mutex
ThreadSafeDnsCache_new(size, f) ==
    With(DnsCache_load_from_toml(f), LAMBDA loaded :
        IF loaded = <<>> THEN DnsCache_new(size)
        ELSE [loaded[1] EXCEPT !.max_size = size])

(***************************************************************************)
(* DnsPacket's name-server lookups (utils/packet.rs)                       *)
(***************************************************************************)
\* str::ends_with
ends_with(s, suffix) ==
    /\ Len(suffix) <= Len(s)
    /\ SubSeq(s, Len(s) - Len(suffix) + 1, Len(s)) = suffix

\* DnsPacket::get_random_a: the address of the first A answer, if any
DnsPacket_get_random_a(p) ==
    With(SelectSeq(p.answers, LAMBDA a : a.type = "A"), LAMBDA found :
        IF found = <<>> THEN <<>> ELSE <<found[1].addr>>)

\* DnsPacket::get_ns: the NS authorities whose domain ends qname, in order
DnsPacket_get_ns(p, qname) ==
    SelectSeq(p.authorities, LAMBDA record :
        record.type = "NS" /\ ends_with(qname, record.domain))

RECURSIVE first_glue(_, _)
\* flat_map(...).next(): for each name server in turn the first A record of
\* resources with its name; the first address found
first_glue(nss, resources) ==
    IF nss = <<>> THEN <<>>
    ELSE With(SelectSeq(resources, LAMBDA record :
                  record.type = "A" /\ record.domain = nss[1].ns), LAMBDA found :
            IF found # <<>> THEN <<found[1].addr>>
            ELSE first_glue(Tail(nss), resources))

DnsPacket_get_resolved_ns(p, qname) == first_glue(DnsPacket_get_ns(p, qname), p.resources)

DnsPacket_get_unresolved_ns(p, qname) ==
    With(DnsPacket_get_ns(p, qname), LAMBDA nss :
        IF nss = <<>> THEN <<>> ELSE <<nss[1].ns>>)

\* DnsCacheEntry::get_packet
DnsCacheEntry_get_packet(entry) ==
    DnsPacket_from_buffer(ByteBuffer_from_buffer(entry.response))

(***************************************************************************)
(* The resolver (main.rs): recursive_lookup and lookup.  A call of         *)
(* recursive_lookup is [qname, qtype, server, res]; the calls in progress  *)
(* are a stack, the innermost last; res of an outer call is the response   *)
(* it holds while the call it made for a name server's address runs.       *)
(***************************************************************************)
\* "198.41.0.4"
root_server == <<198, 41, 0, 4>>

recursive_lookup_call(qname, qtype) ==
    [qname |-> qname, qtype |-> qtype, server |-> root_server, res |-> <<>>]

\* the packet lookup sends
lookup_packet(qname, qtype) ==
    [DnsPacket_new EXCEPT !.header.id = 6666, !.header.questions = 1,
                          !.header.recursion_desired = TRUE,
                          !.questions = <<DnsQuestion_new(qname, qtype)>>]

\* &buffer[0..position]
ByteBuffer_written(b) ==
    With(b, LAMBDA w : [i \in 1..w.position |-> Frame_get(w.buffer, i - 1)])

\* the Err recursive_lookup returns
LookupErr == [kind |-> "err", packet |-> DnsPacket_new]

\* lookup up to its recv_from, for the innermost call; io is what the socket
\* calls do: "bind_err" (bind fails: every call in progress returns the Err
\* through its ?), "send_err" (send_to fails: unwrap panics), or "sent";
\* failure names the call of lookup that failed
lookup_send(stack, queries, io) ==
    With(stack[Len(stack)], LAMBDA call :
        IF io = "bind_err"
        THEN [status |-> "done", stack |-> <<>>, queries |-> queries, result |-> LookupErr,
              failure |-> "bind"]
        ELSE IF io = "send_err"
        THEN [status |-> "panic", stack |-> stack, queries |-> queries, result |-> LookupErr,
              failure |-> "send_to"]
        ELSE [status |-> "waiting", stack |-> stack, failure |-> "none",
              queries |-> Append(queries,
                  [server |-> call.server,
                   data |-> ByteBuffer_written(
                       DnsPacket_write(lookup_packet(call.qname, call.qtype),
                                       ByteBuffer_new))]),
              result |-> LookupErr])

RECURSIVE recursive_lookup_return(_, _, _, _)
\* the innermost call returns Ok(packet): to handle_query when it is the only
\* call, else to the call that made it, which goes on at the address of
\* get_random_a or returns its own res
recursive_lookup_return(stack, queries, packet, io) ==
    IF Len(stack) = 1
    THEN [status |-> "done", stack |-> <<>>, queries |-> queries, failure |-> "none",
          result |-> [kind |-> "ok", packet |-> packet]]
    ELSE With(<<SubSeq(stack, 1, Len(stack) - 1), DnsPacket_get_random_a(packet)>>,
              LAMBDA a :
            IF a[2] # <<>>
            THEN lookup_send([a[1] EXCEPT ![Len(a[1])].server = a[2][1],
                                          ![Len(a[1])].res = <<>>], queries, io)
            ELSE recursive_lookup_return(a[1], queries, a[1][Len(a[1])].res[1], io))

\* recursive_lookup_round without the return on a response that has answers
\* and NOERROR
recursive_lookup_round_descends(stack, queries, res, io) ==
    With(stack[Len(stack)], LAMBDA call :
        IF res.answers = <<>> /\ res.header.rescode = "NXDOMAIN"
        THEN recursive_lookup_return(stack, queries, res, io)
        ELSE With(DnsPacket_get_resolved_ns(res, call.qname), LAMBDA addr :
            IF addr # <<>>
            THEN lookup_send([stack EXCEPT ![Len(stack)].server = addr[1]], queries, io)
            ELSE With(DnsPacket_get_unresolved_ns(res, call.qname), LAMBDA new_qname :
                IF new_qname = <<>>
                THEN recursive_lookup_return(stack, queries, res, io)
                ELSE lookup_send(
                        Append([stack EXCEPT ![Len(stack)].res = <<res>>],
                               recursive_lookup_call(new_qname[1], QT_A)),
                        queries, io))))

\* recursive_lookup_round that returns a referral without glue as it is
recursive_lookup_round_no_nested(stack, queries, res, io) ==
    With(stack[Len(stack)], LAMBDA call :
        IF Len(res.answers) > 0 /\ res.header.rescode = "NOERROR"
        THEN recursive_lookup_return(stack, queries, res, io)
        ELSE IF res.answers = <<>> /\ res.header.rescode = "NXDOMAIN"
        THEN recursive_lookup_return(stack, queries, res, io)
        ELSE With(DnsPacket_get_resolved_ns(res, call.qname), LAMBDA addr :
            IF addr # <<>>
            THEN lookup_send([stack EXCEPT ![Len(stack)].server = addr[1]], queries, io)
            ELSE recursive_lookup_return(stack, queries, res, io)))

\* recursive_lookup_round that does not look for the address of a name server
\* in the response
recursive_lookup_round_no_glue(stack, queries, res, io) ==
    With(stack[Len(stack)], LAMBDA call :
        IF Len(res.answers) > 0 /\ res.header.rescode = "NOERROR"
        THEN recursive_lookup_return(stack, queries, res, io)
        ELSE IF res.answers = <<>> /\ res.header.rescode = "NXDOMAIN"
        THEN recursive_lookup_return(stack, queries, res, io)
        ELSE With(DnsPacket_get_unresolved_ns(res, call.qname), LAMBDA new_qname :
            IF new_qname = <<>>
            THEN recursive_lookup_return(stack, queries, res, io)
            ELSE lookup_send(
                    Append([stack EXCEPT ![Len(stack)].res = <<res>>],
                           recursive_lookup_call(new_qname[1], QT_A)),
                    queries, io)))

\* one round of recursive_lookup's loop, after lookup returned Ok(res)
recursive_lookup_round(stack, queries, res, io) ==
    With(stack[Len(stack)], LAMBDA call :
        IF Len(res.answers) > 0 /\ res.header.rescode = "NOERROR"
        THEN recursive_lookup_return(stack, queries, res, io)
        ELSE IF res.answers = <<>> /\ res.header.rescode = "NXDOMAIN"
        THEN recursive_lookup_return(stack, queries, res, io)
        ELSE With(DnsPacket_get_resolved_ns(res, call.qname), LAMBDA addr :
            IF addr # <<>>
            THEN lookup_send([stack EXCEPT ![Len(stack)].server = addr[1]], queries, io)
            ELSE With(DnsPacket_get_unresolved_ns(res, call.qname), LAMBDA new_qname :
                IF new_qname = <<>>
                THEN recursive_lookup_return(stack, queries, res, io)
                ELSE lookup_send(
                        Append([stack EXCEPT ![Len(stack)].res = <<res>>],
                               recursive_lookup_call(new_qname[1], QT_A)),
                        queries, io))))

\* recv_from(&mut buffer.buffer) of a datagram: the frame it leaves
recv_from(data) ==
    Trim(SubSeq(data, 1, IF Len(data) < FrameSize THEN Len(data) ELSE FrameSize))

\* lookup from its recv_from on, then recursive_lookup up to the next
\* recv_from: data is the datagram received; an undecodable one panics
lookup_recv(stack, queries, data, io) ==
    With(DnsPacket_from_buffer([buffer |-> recv_from(data), position |-> 0]), LAMBDA r :
        IF ~r.ok
        THEN [status |-> "panic", stack |-> stack, queries |-> queries, result |-> LookupErr,
              failure |-> "from_buffer"]
        ELSE recursive_lookup_round(stack, queries, r.val, io))

(***************************************************************************)
(* handle_query (main.rs).  What a part of it does is a record: the cache  *)
(* after it (c), the datagrams it sent (out), whether it panicked, whether *)
(* it is inside lookup's recv_from (status "waiting"), and the resolver's  *)
(* calls and queries.                                                      *)
(***************************************************************************)
\* what a part of handle_query did, for the histories: the branch taken
\* (op), the fingerprint (key), the response built (packet), the entry made
\* of it (entry) with its TTL (ttl), what the cache or the resolver returned
\* (val), the call that failed (outcome) and the datagram lookup received
\* (reply)
NoLog ==
    [op |-> "none", key |-> <<>>, entry |-> <<>>, packet |-> <<>>, ttl |-> 0,
     val |-> <<>>, outcome |-> "none", reply |-> <<>>]

\* no request: handle_query is in its recv_from
NoRequest == [src |-> 0, id |-> 0, q |-> DnsQuestion_new(<<>>, QT_UNKNOWN(0))]

\* format!("{}-{:?}", q.name, q.qtype.to_num())
handle_query_key(q) == q.name \o <<45>> \o Decimal(QueryType_to_num(q.qtype))

\* handle_query_response without `response.header.id = request.header.id`
handle_query_response_new_id(id) ==
    [DnsPacket_new EXCEPT !.header.recursion_desired = TRUE,
                          !.header.recursion_available = TRUE,
                          !.header.response = TRUE]

\* DnsPacket::new() with the four header fields handle_query sets
handle_query_response(id) ==
    [DnsPacket_new EXCEPT !.header.id = id, !.header.recursion_desired = TRUE,
                          !.header.recursion_available = TRUE,
                          !.header.response = TRUE]

\* the TTL handle_query caches a response with
handle_query_ttl(response) ==
    IF response.answers # <<>> THEN DnsRecord_ttl(response.answers[1]) ELSE 60

\* handle_query from the write of the response on (lines 191-212)
handle_query_send(c, src, response, t) ==
    With(<<[to |-> src,
            data |-> ByteBuffer_written(DnsPacket_write(response, ByteBuffer_new))],
           DnsCacheEntry_from_packet(response, handle_query_ttl(response), t)>>,
         LAMBDA a :
        IF response.questions = <<>>
        THEN [status |-> "panic", c |-> c, out |-> <<a[1]>>, stack |-> <<>>,
              queries |-> <<>>, request |-> NoRequest,
              log |-> [NoLog EXCEPT !.op = "sent", !.packet = <<response>>,
                                    !.outcome = "questions[0]"]]
        ELSE IF DnsCache_insert_panics(c, handle_query_key(response.questions[1]))
        THEN [status |-> "panic", c |-> c, out |-> <<a[1]>>, stack |-> <<>>,
              queries |-> <<>>, request |-> NoRequest,
              log |-> [NoLog EXCEPT !.op = "sent", !.packet = <<response>>,
                                    !.key = handle_query_key(response.questions[1]),
                                    !.outcome = "insert"]]
        ELSE [status |-> "done",
              c |-> DnsCache_insert(c, handle_query_key(response.questions[1]), a[2]),
              out |-> <<a[1]>>, stack |-> <<>>, queries |-> <<>>,
              request |-> NoRequest,
              log |-> [NoLog EXCEPT !.op = "sent", !.packet = <<response>>,
                                    !.key = handle_query_key(response.questions[1]),
                                    !.entry = <<a[2]>>,
                                    !.ttl = handle_query_ttl(response)]])

\* handle_query_resolved without `response.answers = res.answers`
handle_query_resolved_no_answers(c, request, rs, t) ==
    IF rs.status = "panic"
    THEN [status |-> "panic", c |-> c, out |-> <<>>, stack |-> rs.stack,
          queries |-> rs.queries, request |-> request,
          log |-> [NoLog EXCEPT !.op = "lookup", !.outcome = rs.failure]]
    ELSE IF rs.status = "waiting"
    THEN [status |-> "waiting", c |-> c, out |-> <<>>, stack |-> rs.stack,
          queries |-> rs.queries, request |-> request,
          log |-> [NoLog EXCEPT !.op = "lookup"]]
    ELSE With(handle_query_send(c, request.src,
                IF rs.result.kind = "ok"
                THEN [handle_query_response(request.id) EXCEPT
                        !.questions = <<request.q>>,
                        !.header.rescode = rs.result.packet.header.rescode,
                        !.authorities = rs.result.packet.authorities,
                        !.resources = rs.result.packet.resources]
                ELSE [handle_query_response(request.id) EXCEPT
                        !.header.rescode = "SERVFAIL"], t),
              LAMBDA s : [s EXCEPT
                !.queries = rs.queries, !.request = request,
                !.log.op = IF rs.result.kind = "ok" THEN "resolved" ELSE "servfail",
                !.log.val = IF rs.result.kind = "ok" THEN <<rs.result.packet>> ELSE <<>>,
                !.log.outcome = IF rs.result.kind = "ok" THEN s.log.outcome
                                ELSE rs.failure])

\* handle_query after recursive_lookup: rs is what the resolver did
handle_query_resolved(c, request, rs, t) ==
    IF rs.status = "panic"
    THEN [status |-> "panic", c |-> c, out |-> <<>>, stack |-> rs.stack,
          queries |-> rs.queries, request |-> request,
          log |-> [NoLog EXCEPT !.op = "lookup", !.outcome = rs.failure]]
    ELSE IF rs.status = "waiting"
    THEN [status |-> "waiting", c |-> c, out |-> <<>>, stack |-> rs.stack,
          queries |-> rs.queries, request |-> request,
          log |-> [NoLog EXCEPT !.op = "lookup"]]
    ELSE With(IF rs.result.kind = "ok"
              THEN [handle_query_response(request.id) EXCEPT
                        !.questions = <<request.q>>,
                        !.header.rescode = rs.result.packet.header.rescode,
                        !.answers = rs.result.packet.answers,
                        !.authorities = rs.result.packet.authorities,
                        !.resources = rs.result.packet.resources]
              ELSE [handle_query_response(request.id) EXCEPT
                        !.header.rescode = "SERVFAIL"], LAMBDA response :
         With(handle_query_send(c, request.src, response, t),
              LAMBDA s : [s EXCEPT
                !.queries = rs.queries, !.request = request,
                !.log.op = IF rs.result.kind = "ok" THEN "resolved" ELSE "servfail",
                !.log.val = IF rs.result.kind = "ok" THEN <<rs.result.packet>> ELSE <<>>,
                !.log.outcome = IF rs.result.kind = "ok" THEN s.log.outcome
                                ELSE rs.failure]))

\* handle_query_hit without `packet.header.id = request.header.id`
handle_query_hit_stored_id(c, request, entry) ==
    With(DnsCacheEntry_get_packet(entry), LAMBDA r :
        [status |-> "done", c |-> c, stack |-> <<>>, queries |-> <<>>,
         request |-> request,
         log |-> [NoLog EXCEPT !.op = "hit", !.val = <<entry>>,
                               !.key = handle_query_key(request.q),
                               !.packet = <<r.val>>],
         out |-> <<[to |-> request.src,
                    data |-> ByteBuffer_written(DnsPacket_write(r.val, ByteBuffer_new))]>>])

\* the cache hit of handle_query (lines 157-164)
handle_query_hit(c, request, entry) ==
    With(DnsCacheEntry_get_packet(entry), LAMBDA r :
        IF ~r.ok
        THEN [status |-> "panic", c |-> c, out |-> <<>>, stack |-> <<>>, queries |-> <<>>,
              request |-> request,
              log |-> [NoLog EXCEPT !.op = "hit", !.val = <<entry>>,
                                    !.key = handle_query_key(request.q),
                                    !.outcome = "get_packet"]]
        ELSE [status |-> "done", c |-> c, stack |-> <<>>, queries |-> <<>>,
              request |-> request,
              log |-> [NoLog EXCEPT !.op = "hit", !.val = <<entry>>,
                                    !.key = handle_query_key(request.q),
                                    !.packet = <<[r.val EXCEPT !.header.id = request.id]>>],
              out |-> <<[to |-> request.src,
                         data |-> ByteBuffer_written(
                             DnsPacket_write([r.val EXCEPT !.header.id = request.id],
                                             ByteBuffer_new))]>>])

\* handle_query for a request that has the question q
handle_query_question(c, request, cache_on, io, t) ==
    With(IF cache_on THEN DnsCache_get(c, handle_query_key(request.q), t)
         ELSE [c |-> c, val |-> <<>>], LAMBDA got :
        IF got.val # <<>> THEN handle_query_hit(got.c, request, got.val[1])
        ELSE With(lookup_send(<<recursive_lookup_call(request.q.name, request.q.qtype)>>,
                              <<>>, io), LAMBDA rs :
                handle_query_resolved(got.c, request, rs, t)))

\* the request handle_query works on: the source and id of the datagram and
\* the question questions.pop() gave, if any
handle_query_request(src, packet) ==
    [src |-> src, id |-> packet.header.id,
     q |-> packet.questions[Len(packet.questions)]]

\* handle_query from its recv_from, which received datagram, up to its
\* return, its panic or the recv_from of lookup
handle_query(c, datagram, cache_on, io, t) ==
    With(DnsPacket_from_buffer([buffer |-> recv_from(datagram.data), position |-> 0]),
         LAMBDA r :
        IF ~r.ok
        THEN [status |-> "panic", c |-> c, out |-> <<>>, stack |-> <<>>, queries |-> <<>>,
              request |-> NoRequest,
              log |-> [NoLog EXCEPT !.op = "recv", !.outcome = "from_buffer"]]
        ELSE IF r.val.questions = <<>>
        THEN With(handle_query_send(c, datagram.src,
                    [handle_query_response(r.val.header.id) EXCEPT
                        !.header.rescode = "FORMERR"], t),
                  LAMBDA s : [s EXCEPT !.log.op = "formerr"])
        ELSE handle_query_question(c, handle_query_request(datagram.src, r.val),
                                   cache_on, io, t))

(***************************************************************************)
(* The datagrams on the wire                                               *)
(***************************************************************************)
MaxDatagrams == 2
MaxLookups == 3

\* the clients' addresses
Clients == {1, 2}

\* the bytes of a datagram that carries packet p
Encoded(p) == ByteBuffer_written(DnsPacket_write(p, ByteBuffer_new))

\* p with the header counts of its sections, as a DNS server sends it
Counted(p) ==
    [p EXCEPT !.header.questions = Len(p.questions),
              !.header.answers = Len(p.answers),
              !.header.authoritative_entries = Len(p.authorities),
              !.header.resource_entries = Len(p.resources)]

\* a header that announces one question, then a name that is a compression
\* pointer to offset 16383: from_buffer returns Err on it
Undecodable(id) ==
    Encoded([DnsPacket_new EXCEPT !.header.id = id, !.header.questions = 1]) \o <<255, 255>>

\* a query with the two questions "b" A and "a" A, in this order
TwoQuestions ==
    [TestPacket EXCEPT !.header.id = 10, !.header.recursion_desired = TRUE,
                       !.questions = <<DnsQuestion_new(<<98>>, QT_A),
                                       DnsQuestion_new(<<97>>, QT_A)>>]

\* what clients send: the query "a" A, a packet without a question, a
\* datagram that does not decode, and the query with two questions
ClientFrames ==
    {Encoded(Counted([TestPacket EXCEPT !.header.id = 7,
                                        !.header.recursion_desired = TRUE])),
     Encoded([DnsPacket_new EXCEPT !.header.id = 8]),
     Undecodable(9),
     Encoded(Counted(TwoQuestions))}

\* the reply of an upstream server to lookup's packet, with result code rc
Reply(rc) ==
    [lookup_packet(<<97>>, QT_A) EXCEPT !.header.response = TRUE, !.header.rescode = rc]

\* what arrives at lookup's socket: an answer with TTL 0, an answer with
\* TTL 1 that names the name server "b" and its address 10.0.0.1, NXDOMAIN,
\* a referral to "b" with its address and without it, SERVFAIL, and a
\* datagram that does not decode
UpstreamFrames ==
    {Encoded(Counted([Reply("NOERROR") EXCEPT !.answers = <<TestAnswer(0)>>])),
     Encoded(Counted([Reply("NOERROR") EXCEPT
        !.answers = <<TestAnswer(1)>>,
        !.authorities = <<[type |-> "NS", domain |-> <<97>>, ns |-> <<98>>, ttl |-> 1]>>,
        !.resources = <<[type |-> "A", domain |-> <<98>>, addr |-> <<10, 0, 0, 1>>,
                         ttl |-> 1]>>])),
     Encoded(Counted(Reply("NXDOMAIN"))),
     Encoded(Counted([Reply("NOERROR") EXCEPT
        !.authorities = <<[type |-> "NS", domain |-> <<97>>, ns |-> <<98>>, ttl |-> 1]>>,
        !.resources = <<[type |-> "A", domain |-> <<98>>, addr |-> <<10, 0, 0, 1>>,
                         ttl |-> 1]>>])),
     Encoded(Counted([Reply("NOERROR") EXCEPT
        !.authorities = <<[type |-> "NS", domain |-> <<97>>, ns |-> <<98>>, ttl |-> 1]>>])),
     Encoded(Counted(Reply("SERVFAIL"))),
     Undecodable(6666)}

\* what lookup's bind and send_to do
LookupIo == {"sent", "bind_err", "send_err"}

(***************************************************************************)
(* The cache driven through its public operations (the calls of the tests  *)
(* of cache.rs, in any order), with the wall clock advancing.              *)
(***************************************************************************)
VARIABLES
    cache,          \* DnsCache.cache: key -> DnsCacheEntry
    order,          \* DnsCache.order
    max_size,       \* DnsCache.max_size
    now,            \* SystemTime::now() in seconds
    panicked,       \* the calling thread has panicked
    updating,       \* update_expired is between its first and last statement
    expired_keys,   \* update_expired: the collected keys not yet visited
    ret,            \* the last call: its arguments and what it returned
    stored,         \* history: the entry each present key was last written with
    by_insertion,   \* history: the present keys, in the order of their insertion
    run,            \* history: the keys inserted since DnsCache::new, while
                    \* only inserts of distinct keys were made
    enable_cache,   \* main's enable_cache
    net,            \* the datagrams queued at the socket of port 2053
    hpc,            \* where the main thread is: in handle_query's recv_from
                    \* ("recv") or in lookup's recv_from ("lookup")
    request,        \* handle_query's src, request id and question q
    stack,          \* the calls of recursive_lookup in progress
    queries,        \* the datagrams lookup has sent for this request
    received,       \* history: the datagrams handle_query has received
    sent,           \* history: the datagrams handle_query has sent
    mutex,          \* ThreadSafeDnsCache.cache: the Mutex around the DnsCache
    rpc,            \* where the thread that updates expired entries is
    rkey,           \* update_expired: the key being looked up
    rstack,         \* update_expired: the calls of recursive_lookup in progress
    rqueries,       \* update_expired: the datagrams lookup has sent for rkey
    ppc,            \* where the thread that saves the cache is
    pending,        \* handle_query: the key and entry not yet inserted
    file            \* dns_cache.toml: the cache last saved, if any

\* the threads ThreadSafeDnsCache::new spawns, the mutex and the file
threadVars == <<mutex, rpc, rkey, rstack, rqueries, ppc, pending, file>>

serverVars ==
    <<enable_cache, net, hpc, request, stack, queries, received, sent, threadVars>>

vars ==
    <<cache, order, max_size, now, panicked, updating, expired_keys, ret, stored,
      by_insertion, run, serverVars>>

\* Mutex::new
Mutex_new == [locked |-> FALSE, poisoned |-> FALSE]

\* the main thread before its first handle_query, the spawned threads
\* before their first lock
ServerIdle ==
    /\ mutex = Mutex_new
    /\ rpc = "lock"
    /\ rkey = <<>>
    /\ rstack = <<>>
    /\ rqueries = <<>>
    /\ ppc = "lock"
    /\ pending = <<>>
    /\ file = <<>>
    /\ net = <<>>
    /\ hpc = "recv"
    /\ request = NoRequest
    /\ stack = <<>>
    /\ queries = <<>>
    /\ received = <<>>
    /\ sent = <<>>

self == [cache |-> cache, order |-> order, max_size |-> max_size]

NoCall ==
    [op |-> "new", key |-> <<>>, entry |-> <<>>, packet |-> <<>>, ttl |-> 0,
     val |-> <<>>, pre |-> "absent", full |-> FALSE, outcome |-> "none",
     reply |-> <<>>]

\* the state of key in the cache before a call made at time t
PreOf(key, t) ==
    IF key \notin DOMAIN cache THEN "absent"
    ELSE IF is_expired(cache[key], t) THEN "expired" ELSE "live"

IsFull == Cardinality(DOMAIN cache) >= max_size

NoRun == [valid |-> FALSE, keys |-> <<>>]

Init ==
    /\ max_size \in 1..MaxCacheSize
    /\ cache = DnsCache_new(max_size).cache
    /\ order = DnsCache_new(max_size).order
    /\ now = 0
    /\ panicked = FALSE
    /\ updating = FALSE
    /\ expired_keys = {}
    /\ ret = NoCall
    /\ stored = <<>>
    /\ by_insertion = <<>>
    /\ run = [valid |-> TRUE, keys |-> <<>>]
    /\ enable_cache = TRUE
    /\ ServerIdle

\* history: m without the keys that are no longer present
Restrict(m, keys) == [k \in DOMAIN m \cap keys |-> m[k]]

\* history: q without the keys that are no longer present
Present(q, keys) == SelectSeq(q, LAMBDA k : k \in keys)

\* the wall clock advances by a second
Tick ==
    /\ now < MaxTime
    /\ now' = now + 1
    /\ ret' = [NoCall EXCEPT !.op = "tick"]
    /\ UNCHANGED <<cache, order, max_size, panicked, updating, expired_keys, stored,
                   by_insertion, run>>
    /\ UNCHANGED serverVars

\* cache.insert(key, create_test_entry(ttl))
Insert(key, ttl) ==
    /\ ~panicked /\ ~updating
    /\ LET entry == DnsCacheEntry_from_packet(TestPacket, ttl, now)
           c     == DnsCache_insert(self, key, entry)
       IN  IF DnsCache_insert_panics(self, key)
           THEN /\ panicked' = TRUE
                /\ UNCHANGED <<cache, order, stored, by_insertion, run>>
                /\ ret' = [NoCall EXCEPT !.op = "panic"]
           ELSE /\ panicked' = FALSE
                /\ cache' = c.cache
                /\ order' = c.order
                /\ ret' = [NoCall EXCEPT !.op = "insert", !.key = key, !.entry = <<entry>>,
                                         !.pre = PreOf(key, now), !.full = IsFull]
                /\ stored' = IF key \in DOMAIN cache
                             THEN Restrict(stored, DOMAIN c.cache)
                             ELSE Map_insert(Restrict(stored, DOMAIN c.cache), key, entry)
                /\ by_insertion' = IF key \in DOMAIN cache
                                   THEN Present(by_insertion, DOMAIN c.cache)
                                   ELSE Append(Present(by_insertion, DOMAIN c.cache), key)
                /\ run' = IF run.valid /\ (\A i \in 1..Len(run.keys) : run.keys[i] # key)
                          THEN [run EXCEPT !.keys = Append(run.keys, key)]
                          ELSE NoRun
    /\ UNCHANGED <<max_size, now, updating, expired_keys>>
    /\ UNCHANGED serverVars

\* cache.get(key)
Get(key) ==
    /\ ~panicked /\ ~updating
    /\ LET r == DnsCache_get(self, key, now)
       IN  /\ cache' = r.c.cache
           /\ order' = r.c.order
           /\ ret' = [NoCall EXCEPT !.op = "get", !.key = key, !.val = r.val,
                                    !.pre = PreOf(key, now), !.full = IsFull]
           /\ stored' = Restrict(stored, DOMAIN r.c.cache)
           /\ by_insertion' = Present(by_insertion, DOMAIN r.c.cache)
    /\ run' = NoRun
    /\ UNCHANGED <<max_size, now, panicked, updating, expired_keys>>
    /\ UNCHANGED serverVars

\* cache.update(key, &packet, ttl)
Update(key, packet, ttl) ==
    /\ ~panicked /\ ~updating
    /\ LET c == DnsCache_update(self, key, packet, ttl, now)
       IN  /\ cache' = c.cache
           /\ order' = c.order
           /\ ret' = [NoCall EXCEPT !.op = "update", !.key = key, !.packet = <<packet>>,
                                    !.ttl = ttl, !.pre = PreOf(key, now), !.full = IsFull]
           /\ stored' = IF key \in DOMAIN cache /\ key \in DOMAIN c.cache
                        THEN Map_insert(Restrict(stored, DOMAIN c.cache), key, c.cache[key])
                        ELSE Restrict(stored, DOMAIN c.cache)
           /\ by_insertion' = Present(by_insertion, DOMAIN c.cache)
    /\ run' = NoRun
    /\ UNCHANGED <<max_size, now, panicked, updating, expired_keys>>
    /\ UNCHANGED serverVars

\* cache.update_expired(): the first loop collects the expired keys
UpdateExpiredBegin ==
    /\ ~panicked /\ ~updating
    /\ updating' = TRUE
    /\ expired_keys' = DnsCache_expired_keys(self, now)
    /\ ret' = [NoCall EXCEPT !.op = "update_expired_begin"]
    /\ run' = NoRun
    /\ UNCHANGED <<cache, order, max_size, now, panicked, stored, by_insertion>>
    /\ UNCHANGED serverVars

\* update_expired: one round of the second loop (the keys come in the
\* HashMap's iteration order, which is any order)
UpdateExpiredKey(key, outcome) ==
    /\ ~panicked /\ updating
    /\ key \in expired_keys
    /\ expired_keys' = expired_keys \ {key}
    /\ IF DnsCache_refresh_panics(key)
       THEN /\ panicked' = TRUE
            /\ ret' = [NoCall EXCEPT !.op = "panic", !.key = key]
            /\ UNCHANGED <<cache, order, stored, by_insertion>>
       ELSE LET c == DnsCache_refresh_key(self, key, outcome, now)
            IN  /\ panicked' = FALSE
                /\ cache' = c.cache
                /\ order' = c.order
                /\ ret' = [NoCall EXCEPT !.op = "refresh", !.key = key,
                                         !.packet = <<outcome.packet>>,
                                         !.outcome = outcome.kind]
                /\ stored' = IF key \in DOMAIN c.cache
                             THEN Map_insert(Restrict(stored, DOMAIN c.cache), key, c.cache[key])
                             ELSE Restrict(stored, DOMAIN c.cache)
                /\ by_insertion' = Present(by_insertion, DOMAIN c.cache)
    /\ UNCHANGED <<max_size, now, updating, run>>
    /\ UNCHANGED serverVars

\* update_expired returns Ok(())
UpdateExpiredEnd ==
    /\ ~panicked /\ updating
    /\ expired_keys = {}
    /\ updating' = FALSE
    /\ ret' = [NoCall EXCEPT !.op = "update_expired"]
    /\ UNCHANGED <<cache, order, max_size, now, panicked, expired_keys, stored,
                   by_insertion, run>>
    /\ UNCHANGED serverVars

Next ==
    \/ Tick
    \/ \E key \in Keys, ttl \in Ttls : Insert(key, ttl)
    \/ \E key \in Keys : Get(key)
    \/ \E key \in Keys, ttl \in Ttls : Update(key, TestPacketAnswered, ttl)
    \/ UpdateExpiredBegin
    \/ \E key \in Keys, outcome \in LookupOutcomes : UpdateExpiredKey(key, outcome)
    \/ UpdateExpiredEnd

Spec == Init /\ [][Next]_vars

(***************************************************************************)
(* The process from its start: ThreadSafeDnsCache::new loads the file that *)
(* an earlier run, or anyone else, has left at the path; the cache is used *)
(* and saved; the process ends and is started again.                       *)
(***************************************************************************)
\* a stored entry, and the same with its ttl field missing
SnapshotEntry == DnsCacheEntry_to_toml(DnsCacheEntry_from_packet(TestPacket, 1, 0))

SnapshotEntryNoTtl ==
    Value_Table([response |-> SnapshotEntry.v.response, expiry |-> Value_Integer(1)])

KeyA == <<97, 45, 49>>
KeyB == <<98, 45, 49>>

\* documents that save_to_toml wrote: an empty cache, one entry, two entries
SnapshotEmpty == DnsCache_to_toml(DnsCache_new(1))

SnapshotOne ==
    Value_Table([cache |-> Value_Table([k \in {KeyA} |-> SnapshotEntry]),
                 order |-> Value_Array(<<Value_String(KeyA)>>),
                 max_size |-> Value_Integer(2)])

SnapshotTwo ==
    Value_Table([cache |-> Value_Table([k \in {KeyA, KeyB} |-> SnapshotEntry]),
                 order |-> Value_Array(<<Value_String(KeyB), Value_String(KeyA)>>),
                 max_size |-> Value_Integer(2)])

\* a document one of whose entries is malformed
SnapshotBadEntry ==
    Value_Table([cache |-> Value_Table([k \in {KeyA, KeyB} |->
                                           IF k = KeyA THEN SnapshotEntryNoTtl
                                           ELSE SnapshotEntry]),
                 order |-> Value_Array(<<Value_String(KeyA), Value_String(KeyB)>>),
                 max_size |-> Value_Integer(2)])

\* files DnsCache::load_from_toml can load
LoadableFiles == <<<<SnapshotEmpty>>, <<SnapshotOne>>, <<SnapshotTwo>>, <<SnapshotBadEntry>>>>

\* no file; a file that is no UTF-8 text; a text that is no TOML document;
\* documents in which a field of the cache is missing or of another type
BrokenFiles ==
    <<<<>>,
     <<[t |-> "bytes"]>>,
     <<[t |-> "text"]>>,
     <<Value_Table([order |-> SnapshotOne.v.order, max_size |-> Value_Integer(2)])>>,
     <<Value_Table([cache |-> Value_Array(<<>>), order |-> SnapshotOne.v.order,
                    max_size |-> Value_Integer(2)])>>,
     <<Value_Table([cache |-> SnapshotOne.v.cache, max_size |-> Value_Integer(2)])>>,
     <<Value_Table([cache |-> SnapshotOne.v.cache, order |-> Value_String(KeyA),
                    max_size |-> Value_Integer(2)])>>,
     <<Value_Table([cache |-> SnapshotOne.v.cache, order |-> SnapshotOne.v.order])>>,
     <<Value_Table([cache |-> SnapshotOne.v.cache, order |-> SnapshotOne.v.order,
                    max_size |-> Value_String(<<50>>)])>>,
     <<Value_Table([cache |-> SnapshotOne.v.cache, order |-> SnapshotOne.v.order,
                    max_size |-> Value_Integer(-1)])>>>>

SnapshotFiles == LoadableFiles \o BrokenFiles

\* the process before ThreadSafeDnsCache::new, with the file it finds
SnapshotInit ==
    /\ \E i \in 1..Len(SnapshotFiles) : file = SnapshotFiles[i]
    /\ hpc = "start"
    /\ cache = <<>>
    /\ order = <<>>
    /\ max_size = 0
    /\ now = 0
    /\ panicked = FALSE
    /\ updating = FALSE
    /\ expired_keys = {}
    /\ ret = NoCall
    /\ stored = <<>>
    /\ by_insertion = <<>>
    /\ run = NoRun
    /\ enable_cache = TRUE
    /\ mutex = Mutex_new
    /\ rpc = "lock"
    /\ rkey = <<>>
    /\ rstack = <<>>
    /\ rqueries = <<>>
    /\ ppc = "lock"
    /\ pending = <<>>
    /\ net = <<>>
    /\ request = NoRequest
    /\ stack = <<>>
    /\ queries = <<>>
    /\ received = <<>>
    /\ sent = <<>>

\* ThreadSafeDnsCache::new(size, .., "dns_cache.toml")
SnapshotNew(size) ==
    /\ hpc = "start"
    /\ \E c \in {ThreadSafeDnsCache_new(size, file)} :
        /\ cache' = c.cache
        /\ order' = c.order
        /\ max_size' = c.max_size
        /\ stored' = c.cache
        /\ by_insertion' = c.order
    /\ hpc' = "recv"
    /\ ret' = [NoCall EXCEPT !.op = "new", !.val = <<size>>,
                             !.outcome = IF DnsCache_load_from_toml(file) = <<>>
                                         THEN "fresh" ELSE "loaded"]
    /\ run' = NoRun
    /\ UNCHANGED <<now, panicked, updating, expired_keys, enable_cache, net, request,
                   stack, queries, received, sent, threadVars>>

\* save_to_toml("dns_cache.toml"), by the saving thread or by Drop
SnapshotSave ==
    /\ hpc = "recv"
    /\ ~panicked
    /\ file' = DnsCache_save_to_toml(self)
    /\ ret' = [NoCall EXCEPT !.op = "save"]
    /\ UNCHANGED <<cache, order, max_size, now, panicked, updating, expired_keys, stored,
                   by_insertion, run, enable_cache, net, hpc, request, stack, queries,
                   received, sent, mutex, rpc, rkey, rstack, rqueries, ppc, pending>>

\* the process ends after the save of Drop and is started again
SnapshotRestart ==
    /\ hpc = "recv"
    /\ ret.op = "save"
    /\ hpc' = "start"
    /\ cache' = <<>>
    /\ order' = <<>>
    /\ max_size' = 0
    /\ stored' = <<>>
    /\ by_insertion' = <<>>
    /\ ret' = NoCall
    /\ UNCHANGED <<now, panicked, updating, expired_keys, run, enable_cache, net, request,
                   stack, queries, received, sent, threadVars>>

SnapshotNext ==
    \/ \E size \in 1..MaxCacheSize : SnapshotNew(size)
    \/ hpc = "recv" /\ Tick
    \/ hpc = "recv" /\ \E key \in {KeyA, KeyB}, ttl \in Ttls : Insert(key, ttl)
    \/ hpc = "recv" /\ \E key \in {KeyA, KeyB} : Get(key)
    \/ hpc = "recv" /\ \E ttl \in Ttls : Update(KeyA, TestPacketAnswered, ttl)
    \/ SnapshotSave
    \/ SnapshotRestart

SnapshotSpec == SnapshotInit /\ [][SnapshotNext]_vars

(***************************************************************************)
(* The server: main's loop around handle_query, the clients that send to   *)
(* port 2053 and the upstream servers that reply to lookup.                *)
(***************************************************************************)
ServerInit ==
    /\ max_size \in 1..MaxCacheSize
    /\ cache = DnsCache_new(max_size).cache
    /\ order = DnsCache_new(max_size).order
    /\ now = 0
    /\ panicked = FALSE
    /\ updating = FALSE
    /\ expired_keys = {}
    /\ ret = NoCall
    /\ stored = <<>>
    /\ by_insertion = <<>>
    /\ run = NoRun
    /\ enable_cache \in BOOLEAN
    /\ ServerIdle

\* a client sends a datagram to port 2053
ClientSend(src, data) ==
    /\ ~panicked
    /\ Len(received) + Len(net) < MaxDatagrams
    /\ net' = Append(net, [src |-> src, data |-> data])
    /\ UNCHANGED <<cache, order, max_size, now, panicked, updating, expired_keys, ret,
                   stored, by_insertion, run, enable_cache, hpc, request, stack, queries,
                   received, sent, threadVars>>

\* the main thread after a part of handle_query that did what step says for
\* the datagram numbered n of received
Handled(step, n) ==
    /\ cache' = step.c.cache
    /\ order' = step.c.order
    /\ panicked' = (step.status = "panic")
    /\ hpc' = IF step.status = "waiting" THEN "lookup" ELSE "recv"
    /\ request' = IF step.status = "waiting" THEN step.request ELSE NoRequest
    /\ stack' = step.stack
    /\ queries' = step.queries
    /\ sent' = sent \o [i \in 1..Len(step.out) |->
                            [to |-> step.out[i].to, data |-> step.out[i].data,
                             datagram |-> n]]
    /\ ret' = [NoCall EXCEPT !.op = step.log.op, !.key = step.log.key,
                             !.entry = step.log.entry, !.packet = step.log.packet,
                             !.ttl = step.log.ttl, !.val = step.log.val,
                             !.outcome = step.log.outcome,
                             !.reply = step.log.reply,
                             !.pre = PreOf(step.log.key, now), !.full = IsFull]
    /\ UNCHANGED <<max_size, now, updating, expired_keys, stored, by_insertion, run,
                   enable_cache, threadVars>>

\* handle_query receives the next datagram and runs until it returns,
\* panics, or waits in lookup for the reply of an upstream server
HandleQuery(io) ==
    /\ ~panicked
    /\ hpc = "recv"
    /\ net # <<>>
    /\ net' = Tail(net)
    /\ received' = Append(received, Head(net))
    /\ \E step \in {handle_query(self, Head(net), enable_cache, io, now)} :
            Handled(step, Len(received) + 1)

\* a datagram arrives at lookup's socket; the resolver and handle_query go
\* on until handle_query returns, panics, or lookup waits again
UpstreamReply(data, io) ==
    /\ ~panicked
    /\ hpc = "lookup"
    /\ \E rs \in {lookup_recv(stack, queries, data, io)} :
       \E step \in {handle_query_resolved(self, request, rs, now)} :
            /\ Len(step.queries) <= MaxLookups
            /\ Handled([step EXCEPT !.log.reply = <<data>>], Len(received))
    /\ UNCHANGED <<net, received>>

\* lookup's recv_from returns an Err: unwrap panics
UpstreamRecvFails ==
    /\ ~panicked
    /\ hpc = "lookup"
    /\ panicked' = TRUE
    /\ ret' = [NoCall EXCEPT !.op = "lookup", !.outcome = "recv_from"]
    /\ UNCHANGED <<cache, order, max_size, now, updating, expired_keys, stored,
                   by_insertion, run, serverVars>>

ServerNext ==
    \/ Tick
    \/ \E src \in Clients, data \in ClientFrames : ClientSend(src, data)
    \/ \E io \in LookupIo : HandleQuery(io)
    \/ \E data \in UpstreamFrames, io \in LookupIo : UpstreamReply(data, io)
    \/ UpstreamRecvFails

ServerSpec == ServerInit /\ [][ServerNext]_vars

\* the main thread runs: a datagram queued at the socket is received.  The
\* clients and the upstream servers are under no obligation.
FairServerSpec == ServerSpec /\ WF_vars(\E io \in LookupIo : HandleQuery(io))

\* what a receiver decodes from the bytes of a datagram
Decoded(data) == DnsPacket_from_buffer([buffer |-> recv_from(data), position |-> 0])

(***************************************************************************)
(* The threads of the process: the main thread in handle_query, the thread *)
(* that updates expired entries and the thread that saves the cache, which *)
(* ThreadSafeDnsCache::new spawns, around the Mutex of the cache.  A       *)
(* thread's pc "lock" (or "lock_...") is a lock() that has not returned.   *)
(* Port 43210 is bound by the thread that is inside lookup.                *)
(***************************************************************************)
\* a lock that returns the guard whether or not the mutex is locked
Mutex_lock_barging(m) == IF m.poisoned THEN "poisoned" ELSE "acquired"

\* Mutex::lock on a mutex that is not locked returns Err if it is poisoned
\* and the guard otherwise; on a locked mutex it does not return
Mutex_lock(m) ==
    IF m.locked THEN "blocked" ELSE IF m.poisoned THEN "poisoned" ELSE "acquired"

\* a guard that is not dropped when its thread panics
Mutex_unlock_leaky(m, panicking) ==
    IF panicking THEN m ELSE [locked |-> FALSE, poisoned |-> m.poisoned]

\* drop of the MutexGuard; a guard dropped by a panicking thread poisons
Mutex_unlock(m, panicking) ==
    [locked |-> FALSE, poisoned |-> m.poisoned \/ panicking]

\* the process runs until its main thread has ended
Alive == hpc # "exit"

\* UdpSocket::bind(("0.0.0.0", 43210)) by a thread while the other thread is
\* inside lookup fails; io is what the socket calls do otherwise
BindIo(other_pc, io) == IF other_pc = "lookup" THEN "bind_err" ELSE io

\* handle_query has built and sent the response of a resolved miss and is
\* about to insert it
InsertDue(step) == step.status = "done" /\ step.log.op = "resolved"

\* the main thread after a part of handle_query that did what step says for
\* the datagram numbered n of received, the insert excepted
MainStep(step, n) ==
    /\ panicked' = (step.status = "panic")
    /\ hpc' = IF step.status = "panic" THEN "lock_drop"
              ELSE IF step.status = "waiting" THEN "lookup"
              ELSE IF InsertDue(step) THEN "lock_insert" ELSE "recv"
    /\ cache' = IF InsertDue(step) THEN cache ELSE step.c.cache
    /\ order' = IF InsertDue(step) THEN order ELSE step.c.order
    /\ pending' = IF InsertDue(step)
                  THEN <<[key |-> step.log.key, entry |-> step.log.entry[1]]>>
                  ELSE <<>>
    /\ request' = IF step.status = "waiting" THEN step.request ELSE NoRequest
    /\ stack' = step.stack
    /\ queries' = step.queries
    /\ sent' = sent \o [i \in 1..Len(step.out) |->
                            [to |-> step.out[i].to, data |-> step.out[i].data,
                             datagram |-> n]]
    /\ ret' = [NoCall EXCEPT !.op = step.log.op, !.key = step.log.key,
                             !.outcome = step.log.outcome]

\* handle_query receives the next datagram and runs up to cache.get, or,
\* when it does not call it, up to its panic or the recv_from of lookup
MainRecv(io) ==
    /\ hpc = "recv"
    /\ net # <<>>
    /\ net' = Tail(net)
    /\ received' = Append(received, Head(net))
    /\ \E r \in {Decoded(Head(net).data)} :
        IF r.ok /\ r.val.questions # <<>> /\ enable_cache
        THEN /\ hpc' = "lock_get"
             /\ request' = handle_query_request(Head(net).src, r.val)
             /\ ret' = [NoCall EXCEPT !.op = "recv"]
             /\ UNCHANGED <<cache, order, panicked, pending, stack, queries, sent>>
        ELSE \E step \in {handle_query(self, Head(net), FALSE, BindIo(rpc, io), now)} :
                MainStep(step, Len(received) + 1)
    /\ UNCHANGED <<max_size, now, updating, expired_keys, stored, by_insertion, run,
                   enable_cache, mutex, rpc, rkey, rstack, rqueries, ppc, file>>

\* lock() of the main thread returns: with the guard, or with the Err that
\* unwrap panics on; a panic while the main thread unwinds aborts
MainLock ==
    /\ hpc \in {"lock_get", "lock_insert", "lock_drop"}
    /\ Mutex_lock(mutex) # "blocked"
    /\ IF Mutex_lock(mutex) = "acquired"
       THEN /\ mutex' = [mutex EXCEPT !.locked = TRUE]
            /\ hpc' = IF hpc = "lock_get" THEN "get"
                      ELSE IF hpc = "lock_insert" THEN "insert" ELSE "drop"
            /\ UNCHANGED <<panicked, pending, request>>
       ELSE /\ hpc' = IF hpc = "lock_drop" THEN "exit" ELSE "lock_drop"
            /\ panicked' = TRUE
            /\ pending' = <<>>
            /\ request' = NoRequest
            /\ UNCHANGED mutex
    /\ ret' = [NoCall EXCEPT !.op = "lock"]
    /\ UNCHANGED <<cache, order, max_size, now, updating, expired_keys, stored,
                   by_insertion, run, enable_cache, net, stack, queries, received, sent,
                   rpc, rkey, rstack, rqueries, ppc, file>>

\* cache.get under the guard, then handle_query up to its return, its panic
\* or the recv_from of lookup
MainGet(io) ==
    /\ hpc = "get"
    /\ mutex' = Mutex_unlock(mutex, FALSE)
    /\ \E step \in {handle_query_question(self, request, TRUE, io, now)} :
            MainStep(step, Len(received))
    /\ UNCHANGED <<max_size, now, updating, expired_keys, stored, by_insertion, run,
                   enable_cache, net, received, rpc, rkey, rstack, rqueries, ppc, file>>

\* a datagram arrives at the socket of the main thread's lookup
MainReply(data, io) ==
    /\ hpc = "lookup"
    /\ \E rs \in {lookup_recv(stack, queries, data, io)} :
       \E step \in {handle_query_resolved(self, request, rs, now)} :
            /\ Len(step.queries) <= MaxLookups
            /\ MainStep(step, Len(received))
    /\ UNCHANGED <<max_size, now, updating, expired_keys, stored, by_insertion, run,
                   enable_cache, net, received, mutex, rpc, rkey, rstack, rqueries, ppc, file>>

\* cache.insert under the guard, then handle_query returns
MainInsert ==
    /\ hpc = "insert"
    /\ \E c \in {DnsCache_insert(self, pending[1].key, pending[1].entry)} :
            /\ cache' = c.cache
            /\ order' = c.order
    /\ mutex' = Mutex_unlock(mutex, FALSE)
    /\ pending' = <<>>
    /\ hpc' = "recv"
    /\ ret' = [NoCall EXCEPT !.op = "insert", !.key = pending[1].key]
    /\ UNCHANGED <<max_size, now, panicked, updating, expired_keys, stored, by_insertion,
                   run, enable_cache, net, request, stack, queries, received, sent,
                   rpc, rkey, rstack, rqueries, ppc, file>>

\* Drop of ThreadSafeDnsCache while the main thread unwinds: save_to_toml
\* under the guard, then the process ends
MainDrop ==
    /\ hpc = "drop"
    /\ file' = <<self>>
    /\ mutex' = Mutex_unlock(mutex, FALSE)
    /\ hpc' = "exit"
    /\ ret' = [NoCall EXCEPT !.op = "save"]
    /\ UNCHANGED <<cache, order, max_size, now, panicked, updating, expired_keys, stored,
                   by_insertion, run, enable_cache, net, request, stack, queries,
                   received, sent, rpc, rkey, rstack, rqueries, ppc, pending>>

\* a build with panic = "abort": the panic of the main thread ends the
\* process without unwinding
MainAbort ==
    /\ hpc = "lock_drop"
    /\ hpc' = "exit"
    /\ UNCHANGED <<cache, order, max_size, now, panicked, updating, expired_keys, ret,
                   stored, by_insertion, run, enable_cache, net, request, stack, queries,
                   received, sent, threadVars>>

\* the update thread's lock() returns: with the Err unwrap panics on, or
\* with the guard, and update_expired collects the expired keys
RefreshLock ==
    /\ Alive
    /\ rpc = "lock"
    /\ Mutex_lock(mutex) # "blocked"
    /\ IF Mutex_lock(mutex) = "acquired"
       THEN /\ mutex' = [mutex EXCEPT !.locked = TRUE]
            /\ rpc' = "keys"
            /\ updating' = TRUE
            /\ expired_keys' = DnsCache_expired_keys(self, now)
       ELSE /\ rpc' = "dead"
            /\ UNCHANGED <<mutex, updating, expired_keys>>
    /\ ret' = [NoCall EXCEPT !.op = "update_expired"]
    /\ UNCHANGED <<cache, order, max_size, now, panicked, stored, by_insertion, run,
                   enable_cache, net, hpc, request, stack, queries, received, sent,
                   rkey, rstack, rqueries, ppc, pending, file>>

\* the update thread after recursive_lookup did rs for key: it panicked, it
\* is inside recv_from, or it returned and the entry is updated or skipped
RefreshStep(key, rs) ==
    /\ rpc' = IF rs.status = "panic" THEN "dead"
              ELSE IF rs.status = "waiting" THEN "lookup" ELSE "keys"
    /\ rkey' = IF rs.status = "waiting" THEN <<key>> ELSE <<>>
    /\ mutex' = IF rs.status = "panic" THEN Mutex_unlock(mutex, TRUE) ELSE mutex
    /\ updating' = (rs.status # "panic")
    /\ rstack' = rs.stack
    /\ rqueries' = rs.queries
    /\ \E c \in {IF rs.status = "done" THEN DnsCache_refresh_key(self, key, rs.result, now)
                 ELSE self} :
            /\ cache' = c.cache
            /\ order' = c.order
    /\ ret' = [NoCall EXCEPT !.op = "refresh", !.key = key, !.outcome = rs.failure]

\* update_expired visits the next collected key, up to the recv_from of
\* lookup
RefreshKey(key, io) ==
    /\ Alive
    /\ rpc = "keys"
    /\ key \in expired_keys
    /\ expired_keys' = expired_keys \ {key}
    /\ IF DnsCache_refresh_panics(key)
       THEN \E rs \in {[status |-> "panic", stack |-> <<>>, queries |-> <<>>,
                         result |-> LookupErr, failure |-> "parse"]} :
                RefreshStep(key, rs)
       ELSE \E q \in {DnsCache_refresh_question(key)} :
            \E rs \in {lookup_send(<<recursive_lookup_call(q.name, q.qtype)>>, <<>>,
                                    BindIo(hpc, io))} :
                RefreshStep(key, rs)
    /\ UNCHANGED <<max_size, now, panicked, stored, by_insertion, run, enable_cache, net,
                   hpc, request, stack, queries, received, sent, ppc, pending, file>>

\* a datagram arrives at the socket of the update thread's lookup
RefreshReply(data, io) ==
    /\ Alive
    /\ rpc = "lookup"
    /\ \E rs \in {lookup_recv(rstack, rqueries, data, io)} :
            /\ Len(rs.queries) <= MaxLookups
            /\ RefreshStep(rkey[1], rs)
    /\ UNCHANGED <<max_size, now, panicked, expired_keys, stored, by_insertion, run,
                   enable_cache, net, hpc, request, stack, queries, received, sent, ppc,
                   pending, file>>

\* update_expired returns, the guard is dropped and the thread sleeps
RefreshUnlock ==
    /\ Alive
    /\ rpc = "keys"
    /\ expired_keys = {}
    /\ mutex' = Mutex_unlock(mutex, FALSE)
    /\ updating' = FALSE
    /\ rpc' = "lock"
    /\ ret' = [NoCall EXCEPT !.op = "updated"]
    /\ UNCHANGED <<cache, order, max_size, now, panicked, expired_keys, stored,
                   by_insertion, run, enable_cache, net, hpc, request, stack, queries,
                   received, sent, rkey, rstack, rqueries, ppc, pending, file>>

\* the saving thread's lock() returns: with the guard, or with the Err
\* unwrap panics on
PersistLock ==
    /\ Alive
    /\ ppc = "lock"
    /\ Mutex_lock(mutex) # "blocked"
    /\ IF Mutex_lock(mutex) = "acquired"
       THEN mutex' = [mutex EXCEPT !.locked = TRUE] /\ ppc' = "save"
       ELSE ppc' = "dead" /\ UNCHANGED mutex
    /\ UNCHANGED <<cache, order, max_size, now, panicked, updating, expired_keys, ret,
                   stored, by_insertion, run, enable_cache, net, hpc, request, stack,
                   queries, received, sent, rpc, rkey, rstack, rqueries, pending, file>>

\* save_to_toml under the guard, then the guard is dropped and the thread
\* sleeps
PersistSave ==
    /\ Alive
    /\ ppc = "save"
    /\ file' = <<self>>
    /\ mutex' = Mutex_unlock(mutex, FALSE)
    /\ ppc' = "lock"
    /\ UNCHANGED <<cache, order, max_size, now, panicked, updating, expired_keys, ret,
                   stored, by_insertion, run, enable_cache, net, hpc, request, stack,
                   queries, received, sent, rpc, rkey, rstack, rqueries, pending>>

\* what the threads' lookups meet: whether send_to fails, and the datagrams
\* that arrive
ThreadIo == {"sent", "send_err"}

ThreadFrames ==
    {Encoded(Counted([Reply("NOERROR") EXCEPT !.answers = <<TestAnswer(0)>>])),
     Encoded(Counted(Reply("NXDOMAIN"))),
     Undecodable(6666)}

\* what a client sends to the process: the query "a" A and a packet without
\* a question
ThreadClientFrames ==
    {Encoded(Counted([TestPacket EXCEPT !.header.id = 7,
                                        !.header.recursion_desired = TRUE])),
     Encoded([DnsPacket_new EXCEPT !.header.id = 8])}

\* a step of the process, its clients or the clock, when the datagrams that
\* arrive at lookup's socket are frames and send_to does one of ios
ThreadsStep(frames, ios) ==
    \/ Tick
    \/ \E data \in ThreadClientFrames : ClientSend(1, data)
    \/ \E io \in ios : MainRecv(io)
    \/ MainLock
    \/ \E io \in ios : MainGet(io)
    \/ \E data \in frames, io \in ios : MainReply(data, io)
    \/ MainInsert
    \/ MainDrop
    \/ MainAbort
    \/ RefreshLock
    \/ \E key \in expired_keys, io \in ios : RefreshKey(key, io)
    \/ \E data \in frames, io \in ios : RefreshReply(data, io)
    \/ RefreshUnlock
    \/ PersistLock
    \/ PersistSave

ThreadsNext == ThreadsStep(ThreadFrames, ThreadIo)

ThreadsSpec == ServerInit /\ [][ThreadsNext]_vars

\* the replies of an upstream that answers every query with an answer
\* record: TTL 0 or TTL 1
AnswerFrames ==
    {Encoded(Counted([Reply("NOERROR") EXCEPT !.answers = <<TestAnswer(0)>>])),
     Encoded(Counted([Reply("NOERROR") EXCEPT !.answers = <<TestAnswer(1)>>]))}

AnsweredNext == ThreadsStep(AnswerFrames, {"sent"})

\* fair scheduling of the threads (a thread that can run does run, a
\* lock() that can return again and again does return), with an upstream
\* that answers every query.  The clients and the clock are under no
\* obligation, and nothing obliges a build to end the process without
\* unwinding.
FairAnsweredSpec ==
    /\ ServerInit
    /\ [][AnsweredNext]_vars
    /\ WF_vars(MainRecv("sent") \/ MainGet("sent") \/ MainInsert \/ MainDrop)
    /\ SF_vars(MainLock)
    /\ WF_vars(\E data \in AnswerFrames : MainReply(data, "sent"))
    /\ SF_vars(RefreshLock)
    /\ WF_vars(RefreshUnlock \/ \E key \in expired_keys : RefreshKey(key, "sent"))
    /\ WF_vars(\E data \in AnswerFrames : RefreshReply(data, "sent"))
    /\ SF_vars(PersistLock)
    /\ WF_vars(PersistSave)

(***************************************************************************)
(* The codec called directly, as the tests of utils call it.  ret is the   *)
(* last call: its name, its arguments and what it returned.                *)
(***************************************************************************)
\* position - (start + 2) on usize is below zero: a build with overflow
\* checks panics there, a build without them wraps
Record_patch_underflows(start, b) == b.position < start + 2

\* DnsRecord::write underflows in the length it patches
DnsRecord_write_underflows(rec, b) ==
    IF rec.type \notin {"NS", "CNAME", "MX"} THEN FALSE
    ELSE With(Record_write_head(rec, 0, b).position, LAMBDA start :
            Record_patch_underflows(start, ByteBuffer_seek(b, DnsRecord_write(rec, b).position)))

RECURSIVE write_records_underflows(_, _)
\* one of the records written in turn underflows
write_records_underflows(rs, b) ==
    IF rs = <<>> THEN FALSE
    ELSE With(<<rs, b>>, LAMBDA a :
            \/ DnsRecord_write_underflows(Head(a[1]), a[2])
            \/ write_records_underflows(Tail(a[1]), DnsRecord_write(Head(a[1]), a[2])))

\* What DnsPacket::write(&mut b) does: Ok(()) with the buffer it leaves, and,
\* where a patched length underflows, the panic of a build with overflow
\* checks.  No write of the codec returns an Err to it.
DnsPacket_write_outcomes(packet, b) ==
    With(<<packet, DnsPacket_write(packet, b),
           write_questions(packet.questions, DnsHeader_write(packet.header, b))>>, LAMBDA a :
        {[ok |-> TRUE, panics |-> FALSE, b |-> a[2]]}
        \cup (IF write_records_underflows(a[1].answers \o a[1].authorities \o a[1].resources,
                                          a[3])
              THEN {[ok |-> FALSE, panics |-> TRUE, b |-> ByteBuffer_new]}
              ELSE {}))

\* a label of 63 letters
Label63 == [i \in 1..63 |-> 97 + (i % 26)]

\* "a", "A", "a.b", "Ww-1.Co", "Ns.a.b", a label of 63 letters, and names of
\* two and of three such labels
CodecNames ==
    {<<97>>, <<65>>, <<97, 46, 98>>, <<87, 119, 45, 49, 46, 67, 111>>,
     <<78, 115, 46, 97, 46, 98>>, Label63, Label63 \o <<46>> \o Label63,
     Label63 \o <<46>> \o Label63 \o <<46, 90>> \o Label63}

CodecHeaders ==
    {DnsHeader_new,
     [DnsHeader_new EXCEPT !.id = 43981, !.recursion_desired = TRUE, !.response = TRUE,
                           !.rescode = "NXDOMAIN", !.z = TRUE],
     [DnsHeader_new EXCEPT !.id = 65535, !.truncated_message = TRUE,
                           !.authoritative_answer = TRUE, !.opcode = 15,
                           !.rescode = "REFUSED", !.checking_disabled = TRUE,
                           !.authed_data = TRUE, !.recursion_available = TRUE]}

CodecQuestions ==
    {<<>>,
     <<DnsQuestion_new(<<97>>, QT_A)>>,
     <<DnsQuestion_new(<<87, 119, 45, 49, 46, 67, 111>>, QT_MX),
       DnsQuestion_new(<<97, 46, 98>>, QT_UNKNOWN(99))>>}

RecordA == [type |-> "A", domain |-> <<65>>, addr |-> <<127, 0, 0, 1>>, ttl |-> 16909060]
RecordNS == [type |-> "NS", domain |-> <<98>>, ns |-> <<78, 115, 46, 97, 46, 98>>, ttl |-> 300]
RecordCNAME == [type |-> "CNAME", domain |-> <<97, 46, 98>>, cname |-> <<97>>, ttl |-> 0]
RecordMX ==
    [type |-> "MX", domain |-> <<97>>, preference |-> 10, exchange |-> <<97, 46, 98>>,
     ttl |-> 1]
RecordAAAA ==
    [type |-> "AAAA", domain |-> <<97>>, addr |-> [i \in 1..16 |-> 16 * i - 1], ttl |-> 1]
RecordUNKNOWN ==
    [type |-> "UNKNOWN", domain |-> <<97>>, qtype |-> 99, data_len |-> 0, ttl |-> 1]

\* an A record and an NS record of 143 and 147 bytes on the wire
RecordLongA == [RecordA EXCEPT !.domain = Label63 \o <<46>> \o Label63]
RecordLongNS == [RecordNS EXCEPT !.domain = Label63 \o <<46>> \o Label63]

CodecAnswers ==
    {<<>>, <<RecordA>>, <<RecordNS>>, <<RecordCNAME>>, <<RecordMX>>, <<RecordAAAA>>,
     <<RecordUNKNOWN>>, <<RecordMX, RecordA>>,
     <<RecordLongA, RecordLongA, RecordLongA>>,
     <<RecordLongA, RecordLongA, RecordLongA, RecordLongA>>,
     <<RecordLongA, RecordLongA, RecordLongA, RecordLongNS>>}

CodecAuthorities == {<<>>, <<RecordNS>>}

CodecResources == {<<>>, <<RecordA>>, <<RecordA, RecordUNKNOWN>>}

\* the offsets and lengths the accesses are made with
CodecOffsets == {0, 12, 500, 509, 510, 511, 512, 513}
CodecLengths == {0, 1, 2, 12, 13}

\* a frame whose 512 bytes are all set
FullFrame == [i \in 1..FrameSize |-> 1 + (i % 255)]

NoCodecCall == [op |-> "none", args |-> <<>>, val |-> <<>>]

CodecInit ==
    /\ ret = NoCodecCall
    /\ max_size = MaxCacheSize
    /\ cache = DnsCache_new(max_size).cache
    /\ order = DnsCache_new(max_size).order
    /\ now = 0
    /\ panicked = FALSE
    /\ updating = FALSE
    /\ expired_keys = {}
    /\ stored = <<>>
    /\ by_insertion = <<>>
    /\ run = NoRun
    /\ enable_cache = TRUE
    /\ ServerIdle

\* a call of the codec: nothing of the server changes
CodecCall(op, args, val) ==
    /\ ret' = [op |-> op, args |-> args, val |-> val]
    /\ UNCHANGED <<cache, order, max_size, now, panicked, updating, expired_keys, stored,
                   by_insertion, run, serverVars>>

\* packet.write(&mut ByteBuffer::new())
CodecWrite(packet) ==
    /\ ret.op = "none"
    /\ \E out \in DnsPacket_write_outcomes(packet, ByteBuffer_new) :
        CodecCall("write", <<packet>>, out)

\* buffer.seek(0); DnsPacket::from_buffer(&mut buffer) on the buffer written
CodecFromBuffer ==
    /\ ret.op = "write"
    /\ ret.val.ok
    /\ \E r \in {DnsPacket_from_buffer(ByteBuffer_seek(ret.val.b, 0))} :
        CodecCall("from_buffer", ret.args, r)

\* buffer.seek(start); buffer.write_qname(name) on a new buffer
CodecWriteQname(name, start) ==
    /\ ret.op = "none"
    /\ \E r \in {ByteBuffer_write_qname(ByteBuffer_seek(ByteBuffer_new, start), name)} :
        CodecCall("write_qname", <<name, start>>, r)

\* buffer.seek(start); buffer.read_qname(&mut out) on the buffer written
CodecReadQname ==
    /\ ret.op = "write_qname"
    /\ ret.val.ok
    /\ \E r \in {ByteBuffer_read_qname(ByteBuffer_seek(ret.val.b, ret.args[2]))} :
        CodecCall("read_qname", <<ret.args[1], ret.args[2], ret.val.b.position>>, r)

\* read(), write(7), get(position) and get_range(position, len) on a buffer
\* at position
CodecRead(position) ==
    /\ ret.op = "none"
    /\ \E r \in {ByteBuffer_read(ByteBuffer_seek(ByteBuffer_from_buffer(FullFrame), position))} :
        CodecCall("read", <<position>>, r)

CodecWriteByte(position) ==
    /\ ret.op = "none"
    /\ \E r \in {ByteBuffer_write(ByteBuffer_seek(ByteBuffer_from_buffer(FullFrame), position), 7)} :
        CodecCall("write_u8", <<position>>, r)

CodecGet(position) ==
    /\ ret.op = "none"
    /\ \E r \in {ByteBuffer_get(ByteBuffer_from_buffer(FullFrame), position)} :
        CodecCall("get", <<position>>, r)

CodecGetRange(start, len) ==
    /\ ret.op = "none"
    /\ \E r \in {ByteBuffer_get_range(ByteBuffer_from_buffer(FullFrame), start, len)} :
        CodecCall("get_range", <<start, len>>, r)

\* the authorities and the additional records of a referral: name servers
\* Ns1 and Ns2 of zone "b", a name server of zone "zz", a CNAME; addresses
\* of Ns1, Ns2 and Ns3, and an AAAA record of Ns1
GlueNs1 == <<110, 49>>
GlueNs2 == <<110, 50>>
GlueNs3 == <<110, 51>>
GlueAuthorityRecords ==
    {[type |-> "NS", domain |-> <<98>>, ns |-> GlueNs1, ttl |-> 1],
     [type |-> "NS", domain |-> <<98>>, ns |-> GlueNs2, ttl |-> 1],
     [type |-> "NS", domain |-> <<122, 122>>, ns |-> GlueNs3, ttl |-> 1],
     [type |-> "CNAME", domain |-> <<98>>, cname |-> GlueNs3, ttl |-> 1]}
GlueResourceRecords ==
    {[type |-> "A", domain |-> GlueNs1, addr |-> <<10, 0, 0, 1>>, ttl |-> 1],
     [type |-> "A", domain |-> GlueNs2, addr |-> <<10, 0, 0, 2>>, ttl |-> 1],
     [type |-> "A", domain |-> GlueNs3, addr |-> <<10, 0, 0, 3>>, ttl |-> 1],
     [type |-> "AAAA", domain |-> GlueNs1, addr |-> [i \in 1..16 |-> i], ttl |-> 1]}

\* the sequences of at most two elements of S
UpToTwo(S) == {<<>>} \cup {<<x>> : x \in S} \cup {<<x, y>> : x \in S, y \in S}

\* get_resolved_ns("a.b") on a referral
CodecGetResolvedNs(authorities, resources) ==
    /\ ret.op = "none"
    /\ \E r \in {DnsPacket_get_resolved_ns(
                     Counted([DnsPacket_new EXCEPT !.authorities = authorities,
                                                   !.resources = resources]),
                     <<97, 46, 98>>)} :
        CodecCall("get_resolved_ns", <<authorities, resources, <<97, 46, 98>>>>, r)

\* the fingerprint handle_query makes of a question, and the question
\* update_expired resolves for it
CodecRefreshQuestion(q) ==
    /\ ret.op = "none"
    /\ \E key \in {handle_query_key(q)} :
        /\ ~DnsCache_refresh_panics(key)
        /\ CodecCall("refresh_question", <<q, key>>, DnsCache_refresh_question(key))

\* a frame in which the name at offset 0 is k compression pointers, each to
\* the offset after it, and then the label "a"
RECURSIVE PointerChain(_)
PointerChain(k) ==
    IF k = 0 THEN <<1, 97, 0>>
    ELSE With(PointerChain(k - 1), LAMBDA rest :
            <<192, 2>> \o [i \in 1..Len(rest) |->
                              IF i % 2 = 0 /\ i <= 2 * (k - 1) THEN rest[i] + 2 ELSE rest[i]])

\* the numbers of pointers of the names read
ChainLengths == 0..7

\* frames whose pointers form a cycle: a pointer to itself, two pointers to
\* each other, and the label "a" followed by a pointer back to it
CyclicFrames == <<<<192, 0>>, <<192, 2, 192, 0>>, <<1, 97, 192, 0>>>>

\* read_qname at offset 0 of a frame with a chain of k pointers
CodecReadChain(k) ==
    /\ ret.op = "none"
    /\ \E r \in {ByteBuffer_read_qname(ByteBuffer_from_buffer(PointerChain(k)))} :
        CodecCall("read_chain", <<k>>, r)

\* read_qname at offset 0 of a frame with a cycle of pointers
CodecReadCycle(i) ==
    /\ ret.op = "none"
    /\ \E r \in {ByteBuffer_read_qname(ByteBuffer_from_buffer(CyclicFrames[i]))} :
        CodecCall("read_cycle", <<i>>, r)

\* the test ends
CodecReturn ==
    /\ ret.op # "none"
    /\ CodecCall("none", <<>>, <<>>)

\* a test makes its calls on a buffer of its own
CodecNext ==
    \/ \E h \in CodecHeaders, qs \in CodecQuestions, an \in CodecAnswers,
          au \in CodecAuthorities, ar \in CodecResources :
            CodecWrite(Counted([header |-> h, questions |-> qs, answers |-> an,
                                authorities |-> au, resources |-> ar]))
    \/ CodecFromBuffer
    \/ \E name \in CodecNames, start \in CodecOffsets : CodecWriteQname(name, start)
    \/ CodecReadQname
    \/ \E position \in CodecOffsets : CodecRead(position)
    \/ \E position \in CodecOffsets : CodecWriteByte(position)
    \/ \E position \in CodecOffsets : CodecGet(position)
    \/ \E start \in CodecOffsets, len \in CodecLengths : CodecGetRange(start, len)
    \/ \E au \in UpToTwo(GlueAuthorityRecords), ar \in UpToTwo(GlueResourceRecords) :
            CodecGetResolvedNs(au, ar)
    \/ \E name \in CodecNames, qtype \in {QT_A, QT_MX, QT_AAAA, QT_UNKNOWN(99)} :
            CodecRefreshQuestion(DnsQuestion_new(name, qtype))
    \/ \E k \in ChainLengths : CodecReadChain(k)
    \/ \E i \in 1..Len(CyclicFrames) : CodecReadCycle(i)
    \/ CodecReturn

CodecSpec == CodecInit /\ [][CodecNext]_vars

(***************************************************************************)
(* Properties of the cache                                                 *)
(***************************************************************************)
OrderSet == {order[i] : i \in 1..Len(order)}

\* q without key, the other elements in their order
Without(q, key) == SelectSeq(q, LAMBDA k : k # key)

\* m and n agree on every key but key
SameButFor(m, n, key) ==
    /\ DOMAIN m \ {key} = DOMAIN n \ {key}
    /\ \A k \in DOMAIN m \ {key} : m[k] = n[k]

\* C1: after every call on a cache made by DnsCache::new(max_size), with
\* max_size >= 1, the number of stored entries is at most max_size.
C1_SizeAtMostMaxSize == max_size >= 1 => Cardinality(DOMAIN cache) <= max_size

\* an insert of a new key into a full cache has returned
C1_Witness ==
    /\ ret.op = "insert" /\ ret.pre = "absent" /\ ret.full
    /\ Cardinality(DOMAIN cache) = max_size

\* C2: order lists exactly the keys of the entries map, each once.
C2_OrderListsKeysOnce ==
    /\ OrderSet = DOMAIN cache
    /\ \A i, j \in 1..Len(order) : i # j => order[i] # order[j]

\* a get has removed an expired key and left another key in the cache
C2_Witness ==
    /\ ret.op = "get" /\ ret.pre = "expired"
    /\ cache # <<>>

\* C3: eviction is FIFO. order lists the present keys by the time of their
\* insertion, oldest first; an insert of a new key into a full cache removes
\* exactly the head of order; and after n > max_size inserts of distinct keys
\* into the new cache the present keys are the last max_size keys inserted.
C3_InsertEvictsHead ==
    (/\ ret'.op = "insert"
     /\ ret'.key \notin DOMAIN cache
     /\ Cardinality(DOMAIN cache) >= max_size)
    => /\ DOMAIN cache' = (DOMAIN cache \ {Head(order)}) \cup {ret'.key}
       /\ order' = Append(Tail(order), ret'.key)

C3_LastInsertedSurvive ==
    (run.valid /\ Len(run.keys) > max_size)
    => /\ order = SubSeq(run.keys, Len(run.keys) - max_size + 1, Len(run.keys))
       /\ DOMAIN cache = {run.keys[i] : i \in (Len(run.keys) - max_size + 1)..Len(run.keys)}

C3_FifoEviction ==
    /\ [](order = by_insertion)
    /\ [][C3_InsertEvictsHead]_vars
    /\ []C3_LastInsertedSurvive

\* more than max_size distinct keys were inserted into the new cache
C3_Witness ==
    /\ run.valid /\ Len(run.keys) > max_size
    /\ ret.op = "insert" /\ ret.full
    /\ max_size > 1

\* C4: insert(k, e) with k present changes nothing, also when the stored
\* entry is expired and when the cache is full.
C4_InsertPresentIsNoOp ==
    [][(ret'.op = "insert" /\ ret'.key \in DOMAIN cache)
       => (cache' = cache /\ order' = order /\ max_size' = max_size)]_vars

\* an insert of a present, expired key into a full cache has returned, with
\* an entry that differs from the stored one
C4_Witness ==
    /\ ret.op = "insert" /\ ret.pre = "expired" /\ ret.full
    /\ ret.key \in DOMAIN cache
    /\ ret.entry # <<cache[ret.key]>>

\* C5: get(k) on a present, expired entry returns none; afterwards k is in
\* neither the map nor order, and every other key, entry and the relative
\* order are as before.
C5_GetExpiredRemoves ==
    [][(/\ ret'.op = "get"
        /\ ret'.key \in DOMAIN cache
        /\ is_expired(cache[ret'.key], now))
       => (/\ ret'.val = <<>>
           /\ ret'.key \notin DOMAIN cache'
           /\ \A i \in 1..Len(order') : order'[i] # ret'.key
           /\ SameButFor(cache', cache, ret'.key)
           /\ DOMAIN cache' = DOMAIN cache \ {ret'.key}
           /\ order' = Without(order, ret'.key))]_vars

\* a get of an expired key has returned none while two keys were present
C5_Witness ==
    /\ ret.op = "get" /\ ret.pre = "expired" /\ ret.val = <<>>
    /\ Len(order) >= 1

\* C6 (as claimed): an entry is expired exactly when now >= expiry, so a get
\* returns none exactly then.
C6_ExpiredAtExpiry ==
    [][(ret'.op = "get" /\ ret'.key \in DOMAIN cache)
       => ((ret'.val = <<>>) <=> (now >= cache[ret'.key].expiry))]_vars

\* C7: get(k) on a present, non-expired key returns the entry the creating
\* insert or the latest update stored, and changes nothing; get on an absent
\* key returns none and changes nothing.
C7_GetReturnsStored ==
    [][(/\ ret'.op = "get"
        /\ (ret'.key \in DOMAIN cache => ~is_expired(cache[ret'.key], now)))
       => (/\ cache' = cache /\ order' = order
           /\ IF ret'.key \in DOMAIN cache
              THEN /\ ret'.val = <<cache[ret'.key]>>
                   /\ ret'.key \in DOMAIN stored
                   /\ ret'.val = <<stored[ret'.key]>>
              ELSE ret'.val = <<>>)]_vars

\* a get has returned the entry of a key that was updated after its insert
C7_Witness ==
    /\ ret.op = "get" /\ ret.pre = "live" /\ ret.val # <<>>
    /\ ret.val[1].response = DnsPacket_write_to_bytes(TestPacketAnswered)
    /\ Len(order) > 1

\* C8: update(key, packet, ttl) on a present key sets the entry's response to
\* the encoding of packet and its expiry to now + ttl, and changes neither
\* the key set, nor order, nor any other entry; on an absent key it changes
\* nothing.
C8_UpdateSetsFrameAndExpiry ==
    [][(ret'.op = "update")
       => IF ret'.key \in DOMAIN cache
          THEN /\ DOMAIN cache' = DOMAIN cache
               /\ order' = order
               /\ cache'[ret'.key].response = DnsPacket_write(ret'.packet[1], ByteBuffer_new).buffer
               /\ cache'[ret'.key].expiry = now + ret'.ttl
               /\ SameButFor(cache', cache, ret'.key)
          ELSE cache' = cache /\ order' = order]_vars

\* an update has replaced the frame of a present key, another key present
C8_Witness ==
    /\ ret.op = "update" /\ ret.pre # "absent"
    /\ ret.key \in DOMAIN cache
    /\ Len(order) > 1
    /\ \E k \in DOMAIN cache : cache[k].response # cache[ret.key].response

(***************************************************************************)
(* Properties of the server                                                *)
(***************************************************************************)
\* the datagram numbered i of received has been answered: a datagram was
\* sent for it to the address it came from
Answered(i) ==
    \E j \in 1..Len(sent) : sent[j].datagram = i /\ sent[j].to = received[i].src

\* C9: the service never crashes on input: whatever datagram handle_query
\* receives (undecodable bytes, a packet with no question, a query whose
\* resolution fails, a valid query), it does not panic, so that main's loop
\* goes on to the next datagram.
C9_NeverCrashes == ~panicked

\* C10: every datagram handle_query receives is eventually answered with a
\* response sent to its source address, whatever the upstream servers do
\* (answer, answer with an error, send an undecodable reply, never reply).
C10_EveryDatagramAnswered ==
    \A i \in 1..MaxDatagrams : (Len(received) >= i) ~> (Len(received) >= i /\ Answered(i))

\* handle_query has just received a datagram
Receives == Len(received') = Len(received) + 1

\* handle_query has just sent one datagram
Sends == Len(sent') = Len(sent) + 1

\* C11: when handle_query receives a packet that decodes and has no
\* question, it sends to the source one response that has RCODE FORMERR, the
\* id of the request and QR = 1, and it sends no query upstream.
C11_NoQuestionFormerr ==
    [][Receives =>
        \E d \in {received'[Len(received')]} : \E r \in {Decoded(d.data)} :
            (r.ok /\ r.val.questions = <<>>) =>
                /\ Sends
                /\ queries' = <<>>
                /\ hpc' = "recv"
                /\ \E x \in {sent'[Len(sent')]} : \E y \in {Decoded(x.data)} :
                    /\ x.to = d.src
                    /\ y.ok
                    /\ y.val.header.rescode = "FORMERR"
                    /\ y.val.header.id = r.val.header.id
                    /\ y.val.header.response]_vars

\* a packet without a question, id 8, was received and a response sent for it
C11_Witness ==
    /\ ret.op = "formerr"
    /\ \E i \in 1..Len(sent) :
        /\ Decoded(received[sent[i].datagram].data).val.questions = <<>>
        /\ Decoded(received[sent[i].datagram].data).val.header.id = 8
        /\ Decoded(sent[i].data).val.header.rescode = "FORMERR"

\* the calls of lookup that can fail
LookupFailures == {"bind", "send_to", "recv_from", "from_buffer"}

\* the main thread has just run into a failure of lookup
LookupFails ==
    /\ ~panicked
    /\ ret' # ret
    /\ ret'.op \in {"lookup", "servfail"}
    /\ ret'.outcome \in LookupFailures

\* C12: when the upstream query fails (the bind, the send or the receive
\* returns an error, or the reply does not decode), handle_query sends a
\* response that has RCODE SERVFAIL and the id of the request.
C12_UpstreamFailureServfail ==
    [][LookupFails =>
        /\ Sends
        /\ \E d \in {received'[Len(received')]} :
           \E x \in {sent'[Len(sent')]} : \E y \in {Decoded(x.data)} :
            /\ x.to = d.src
            /\ y.ok
            /\ y.val.header.rescode = "SERVFAIL"
            /\ y.val.header.id = Decoded(d.data).val.header.id]_vars

\* C13: on a cache hit (the cache is enabled and get returns an entry for
\* the fingerprint of the request), handle_query sends the packet decoded
\* from the stored frame with only header.id replaced by the id of the
\* request; it sends no query upstream and inserts nothing into the cache.
C13_CacheHitServesStoredFrame ==
    [][Receives =>
        \E d \in {received'[Len(received')]} : \E r \in {Decoded(d.data)} :
            (/\ r.ok
             /\ r.val.questions # <<>>
             /\ enable_cache
             /\ PreOf(handle_query_key(handle_query_request(d.src, r.val).q), now) = "live")
            =>
            \E entry \in {cache[handle_query_key(handle_query_request(d.src, r.val).q)]} :
            \E p \in {DnsCacheEntry_get_packet(entry)} :
                /\ p.ok
                /\ Sends
                /\ sent'[Len(sent')].to = d.src
                /\ sent'[Len(sent')].data =
                        Encoded([p.val EXCEPT !.header.id = r.val.header.id])
                /\ queries' = <<>>
                /\ hpc' = "recv"
                /\ ~panicked'
                /\ cache' = cache
                /\ order' = order]_vars

\* a request with an id other than the stored one was served from the cache
C13_Witness ==
    /\ ret.op = "hit"
    /\ ~panicked
    /\ ret.val # <<>>
    /\ DnsCacheEntry_get_packet(ret.val[1]).val.header.id # ret.packet[1].header.id
    /\ sent[Len(sent)].data = Encoded(ret.packet[1])

\* the main thread has just got Ok(packet) from recursive_lookup
Resolves == ~panicked /\ ret' # ret /\ ret'.op = "resolved"

\* C14: on a cache miss that recursive_lookup resolves, the response
\* handle_query builds and sends has the id of the request, RD = 1, RA = 1,
\* QR = 1, the RCODE of the resolved packet, exactly its answers,
\* authorities and additional records in their order, and the question q in
\* its question section.
C14_ResolvedResponse ==
    [][Resolves =>
        \E d \in {received'[Len(received')]} :
        \E res \in {ret'.val[1]} : \E response \in {ret'.packet[1]} :
            /\ response.header.id = Decoded(d.data).val.header.id
            /\ response.header.recursion_desired
            /\ response.header.recursion_available
            /\ response.header.response
            /\ response.header.rescode = res.header.rescode
            /\ response.answers = res.answers
            /\ response.authorities = res.authorities
            /\ response.resources = res.resources
            /\ response.questions =
                    <<handle_query_request(d.src, Decoded(d.data).val).q>>
            /\ Sends
            /\ sent'[Len(sent')].to = d.src
            /\ sent'[Len(sent')].data = Encoded(response)]_vars

\* a miss was resolved to a packet that has an answer, and the response
\* was sent
C14_Witness ==
    /\ ret.op = "resolved"
    /\ ret.val[1].answers # <<>>
    /\ ret.packet[1].answers = ret.val[1].answers
    /\ sent # <<>>

\* the main thread has just sent the response to a cache miss: the one built
\* from what recursive_lookup returned, Ok or Err
AnswersMiss ==
    /\ ~panicked
    /\ ret' # ret
    /\ ret'.op \in {"resolved", "servfail"}
    /\ Sends

\* C15: after handle_query has answered a cache miss for a fingerprint k
\* that was absent from the cache, the cache holds under k an entry for the
\* response just sent, whose expiry is the time of the insertion plus the
\* TTL of the first answer record of the response, or plus 60 when the
\* response has no answer.
C15_MissAnsweredIsCached ==
    [][AnswersMiss =>
        \E d \in {received'[Len(received')]} :
        \E k \in {handle_query_key(handle_query_request(d.src, Decoded(d.data).val).q)} :
        \E response \in {ret'.packet[1]} :
            k \notin DOMAIN cache =>
                /\ k \in DOMAIN cache'
                /\ cache'[k].response = Trim(sent'[Len(sent')].data)
                /\ cache'[k].expiry =
                     now + (IF response.answers # <<>>
                            THEN DnsRecord_ttl(response.answers[1]) ELSE 60)]_vars

\* C16: for a request that carries more than one question, handle_query
\* resolves, answers and fingerprints the first question of the request:
\* the query it sends upstream asks the first question, and the cache is
\* looked up under the fingerprint of the first question.
C16_FirstQuestionHonored ==
    [][Receives =>
        \E d \in {received'[Len(received')]} : \E r \in {Decoded(d.data)} :
            (r.ok /\ Len(r.val.questions) > 1) =>
                /\ queries' # <<>> =>
                     Decoded(queries'[1].data).val.questions = <<r.val.questions[1]>>
                /\ ret'.op = "hit" =>
                     ret'.key = handle_query_key(r.val.questions[1])]_vars

\* a response at which recursive_lookup's loop returns
Terminal(res) ==
    \/ Len(res.answers) > 0 /\ res.header.rescode = "NOERROR"
    \/ res.answers = <<>> /\ res.header.rescode = "NXDOMAIN"

\* lookup has just received a datagram
LookupReceives == ~panicked /\ hpc = "lookup" /\ ret' # ret /\ ret'.reply # <<>>

\* C17: a call of recursive_lookup stops at the first upstream response that
\* has an answer and RCODE NOERROR, or no answer and RCODE NXDOMAIN, and
\* returns exactly that response without a further upstream query: the call
\* handle_query made hands it to handle_query, and a call made for the
\* address of a name server hands it to the call that made it, so that a
\* query sent afterwards is one of that outer call.
C17_DescentStopsAtTerminal ==
    [][LookupReceives =>
        \E r \in {Decoded(ret'.reply[1])} :
            (r.ok /\ Terminal(r.val)) =>
                IF Len(stack) = 1
                THEN /\ ret'.op = "resolved"
                     /\ ret'.val = <<r.val>>
                     /\ queries' = queries
                     /\ stack' = <<>>
                     /\ hpc' = "recv"
                ELSE /\ Len(stack') < Len(stack)
                     /\ stack' # <<>> =>
                          stack'[Len(stack')].qname = stack[Len(stack')].qname
                     /\ queries' # queries =>
                          /\ stack' # <<>>
                          /\ Len(queries') = Len(queries) + 1
                          /\ Decoded(queries'[Len(queries')].data).val.questions[1].name
                                = stack'[Len(stack')].qname]_vars

\* the resolver returned to handle_query a response that has an answer and
\* names a name server with its address
C17_Witness ==
    /\ ret.op = "resolved"
    /\ ret.reply # <<>>
    /\ Decoded(ret.reply[1]).val = ret.val[1]
    /\ ret.val[1].answers # <<>>
    /\ ret.val[1].resources # <<>>

(***************************************************************************)
(* Properties of the threads                                               *)
(***************************************************************************)
\* the threads that are inside a cache operation, between lock() and the
\* drop of the guard: the main thread in get, insert or the final save of
\* Drop, the update thread in update_expired, the saving thread in
\* save_to_toml
Inside ==
    (IF hpc \in {"get", "insert", "drop"} THEN {"main"} ELSE {})
    \cup (IF rpc \in {"keys", "lookup"} THEN {"refresh"} ELSE {})
    \cup (IF ppc = "save" THEN {"persist"} ELSE {})

\* C18: cache operations are mutually exclusive: at any time at most one of
\* the handler, the update thread, the saving thread and the final save is
\* inside a cache operation, and it is inside exactly when the mutex is
\* locked; between the start and the end of a cycle of update_expired the
\* main thread is in no get and no insert, so a get or insert sees none or
\* all of the cycle's replacements.
C18_CacheOperationsExclusive ==
    /\ Cardinality(Inside) <= 1
    /\ mutex.locked <=> Inside # {}
    /\ updating <=> "refresh" \in Inside
    /\ updating => hpc \notin {"get", "insert", "drop"}

\* handle_query waits in the lock() of cache.get while update_expired holds
\* the mutex and waits for the reply to its lookup
C18_Witness ==
    /\ hpc = "lock_get"
    /\ rpc = "lookup"
    /\ mutex.locked
    /\ updating

\* the threads that are in a lock() that has not returned
InLock ==
    (IF hpc \in {"lock_get", "lock_insert", "lock_drop"} THEN {"main"} ELSE {})
    \cup (IF rpc = "lock" THEN {"refresh"} ELSE {})
    \cup (IF ppc = "lock" THEN {"persist"} ELSE {})

\* the thread that holds the mutex can take its next step by itself
HolderRuns ==
    \/ "main" \in Inside /\ ENABLED (MainInsert \/ MainDrop \/ \E io \in ThreadIo : MainGet(io))
    \/ "persist" \in Inside /\ ENABLED PersistSave
    \/ rpc = "keys" /\ ENABLED (RefreshUnlock \/ \E key \in expired_keys, io \in ThreadIo :
                                                    RefreshKey(key, io))

\* the thread that holds the mutex is in lookup's recv_from, and goes on
\* when a datagram arrives
HolderAwaitsReply ==
    rpc = "lookup" /\ ENABLED (\E data \in ThreadFrames, io \in ThreadIo : RefreshReply(data, io))

C20_ExpiredEntriesRefreshed ==
    \A k \in Keys :
        (k \in DOMAIN cache /\ is_expired(cache[k], now))
            ~> (k \notin DOMAIN cache \/ ~is_expired(cache[k], now))

(***************************************************************************)
(* Properties of the snapshot                                              *)
(***************************************************************************)
\* the field of a document is there and of the variant the format gives it
HasField(doc, name, variant) ==
    /\ name \in DOMAIN doc.v
    /\ doc.v[name].t = variant

\* the file is missing, unreadable or structurally invalid: no document, or
\* one without its table `cache`, its array `order` or its integer `max_size`
BrokenSnapshot(f) ==
    \/ Len(f) = 0
    \/ f[1].t # "table"
    \/ ~HasField(f[1], "cache", "table")
    \/ ~HasField(f[1], "order", "array")
    \/ ~HasField(f[1], "max_size", "integer")

\* ThreadSafeDnsCache::new(size, ..) has returned
Constructed == hpc = "recv" /\ ret.op = "new" /\ ret.val # <<>>

\* C21: when the snapshot file is missing, unreadable or structurally
\* invalid, ThreadSafeDnsCache::new returns a cache without entries, with an
\* empty order and with the configured max_size
C21_BrokenSnapshotGivesEmptyCache ==
    (Constructed /\ BrokenSnapshot(file))
        => /\ DOMAIN cache = {}
           /\ Len(order) = 0
           /\ max_size = ret.val[1]
           /\ ~panicked

\* the constructor has run on a document that lacks one of its fields
C21_Witness ==
    /\ Constructed
    /\ BrokenSnapshot(file)
    /\ Len(file) = 1
    /\ file[1].t = "table"
    /\ HasField(file[1], "cache", "table")
    /\ DOMAIN file[1].v.cache.v # {}
    /\ DOMAIN cache = {}
    /\ max_size = ret.val[1]

(***************************************************************************)
(* Properties of the codec                                                 *)
(***************************************************************************)
\* rec with its names in lowercase
LowerRecord(rec) ==
    CASE rec.type = "NS" -> [rec EXCEPT !.domain = to_lowercase(@), !.ns = to_lowercase(@)]
      [] rec.type = "CNAME" ->
            [rec EXCEPT !.domain = to_lowercase(@), !.cname = to_lowercase(@)]
      [] rec.type = "MX" ->
            [rec EXCEPT !.domain = to_lowercase(@), !.exchange = to_lowercase(@)]
      [] OTHER -> [rec EXCEPT !.domain = to_lowercase(@)]

LowerRecords(rs) == [i \in 1..Len(rs) |-> LowerRecord(rs[i])]

\* p with every name in lowercase
LowerPacket(p) ==
    [p EXCEPT !.questions = [i \in 1..Len(@) |-> [@[i] EXCEPT !.name = to_lowercase(@)]],
              !.answers = LowerRecords(@),
              !.authorities = LowerRecords(@),
              !.resources = LowerRecords(@)]

\* the length of a name on the wire: a length byte and the bytes of each
\* label, and the zero byte
NameLen(name) == Len(name) + 2

\* the length of a record on the wire: name, type, class, ttl, the length of
\* its data, and its data
RecordLen(rec) ==
    NameLen(rec.domain) + 10 +
        CASE rec.type = "A" -> 4
          [] rec.type = "AAAA" -> 16
          [] rec.type = "NS" -> NameLen(rec.ns)
          [] rec.type = "CNAME" -> NameLen(rec.cname)
          [] rec.type = "MX" -> 2 + NameLen(rec.exchange)
          [] rec.type = "UNKNOWN" -> rec.data_len

QuestionLen(q) == NameLen(q.name) + 4

RECURSIVE QuestionsLen(_)
QuestionsLen(qs) == IF qs = <<>> THEN 0 ELSE QuestionLen(Head(qs)) + QuestionsLen(Tail(qs))

RECURSIVE RecordsLen(_)
RecordsLen(rs) == IF rs = <<>> THEN 0 ELSE RecordLen(Head(rs)) + RecordsLen(Tail(rs))

\* the length of the wire form of a packet
WireLen(p) ==
    12 + QuestionsLen(p.questions) + RecordsLen(p.answers \o p.authorities \o p.resources)

\* the wire form of the packet fits the frame of 512 bytes
Fits(p) == WireLen(p) <= FrameSize

\* C22: for every well-formed packet whose header counts are the lengths
\* of its sections, packets with UNKNOWN records included, decoding the
\* encoding of the packet gives the packet, its names in lowercase
C22_DecodeOfEncodeIsIdentity ==
    (ret.op = "from_buffer" /\ Fits(ret.args[1]))
        => /\ ret.val.ok
           /\ ret.val.val = LowerPacket(ret.args[1])

\* the ASCII letters of s in lowercase
LowerAscii(s) == [i \in 1..Len(s) |-> IF s[i] \in 65..90 THEN s[i] + 32 ELSE s[i]]

\* C23: for a name of ASCII labels of 1 to 63 bytes that fits the frame,
\* read_qname at the offset where write_qname wrote it gives the name in
\* lowercase and leaves the position where the write left it
C23_ReadQnameOfWriteQname ==
    ret.op = "read_qname"
        => /\ ret.val.ok
           /\ ret.val.val = LowerAscii(ret.args[1])
           /\ ret.val.b.position = ret.args[3]

\* a name with a capital, written so that its last byte is the last of the
\* frame, has been read back
C23_Witness ==
    /\ ret.op = "read_qname"
    /\ ret.val.ok
    /\ ret.args[1] # LowerAscii(ret.args[1])
    /\ ret.args[2] > 0
    /\ ret.args[3] = FrameSize


\* C24: an access of the buffer fails exactly when it touches an offset
\* greater than 511: read(), write(v) and get(p) at offset p succeed exactly
\* when p <= 511, and get_range(i, n) with n >= 1 succeeds exactly when its
\* last byte, at offset i + n - 1, is at 511 or before
C24_OverflowExactlyPast511 ==
    /\ ret.op \in {"read", "write_u8", "get"}
        => (ret.val.ok <=> ret.args[1] <= FrameSize - 1)
    /\ (ret.op = "get_range" /\ ret.args[2] >= 1)
        => (ret.val.ok <=> ret.args[1] + ret.args[2] - 1 <= FrameSize - 1)

\* no record of the packet is of a type the encoder does not write
NoUnknownRecords(p) ==
    \A i \in 1..Len(p.answers \o p.authorities \o p.resources) :
        (p.answers \o p.authorities \o p.resources)[i].type # "UNKNOWN"

\* C25: DnsPacket::write of a packet of known records whose wire form is
\* longer than the frame returns an error: it does not panic and does not
\* return success
C25_OversizedWriteFails ==
    (ret.op = "write" /\ ~Fits(ret.args[1]) /\ NoUnknownRecords(ret.args[1]))
        => (~ret.val.ok /\ ~ret.val.panics)

\* the targets of the NS authorities of a zone that ends qname
MatchedTargets(authorities, qname) ==
    {authorities[i].ns : i \in {j \in 1..Len(authorities) :
        /\ authorities[j].type = "NS"
        /\ Len(authorities[j].domain) <= Len(qname)
        /\ \A k \in 1..Len(authorities[j].domain) :
              authorities[j].domain[k]
                  = qname[Len(qname) - Len(authorities[j].domain) + k]}}

\* the places in the additional section of the A records of a matched target
GluePlaces(authorities, resources, qname) ==
    {j \in 1..Len(resources) :
        /\ resources[j].type = "A"
        /\ resources[j].domain \in MatchedTargets(authorities, qname)}

\* C26: get_resolved_ns(qname) returns the address of the first A record, in
\* the order of the additional section, whose domain is the target of an NS
\* authority whose domain ends qname, and None when there is no such record
C26_ResolvedNsIsFirstGlueRecord ==
    ret.op = "get_resolved_ns"
        => LET places == GluePlaces(ret.args[1], ret.args[2], ret.args[3])
           IN  ret.val = IF places = {} THEN <<>>
                         ELSE <<ret.args[2][CHOOSE j \in places :
                                               \A k \in places : j <= k].addr>>

(***************************************************************************)
(* Properties of update_expired                                            *)
(***************************************************************************)
\* C27: when update_expired has resolved an expired key to a packet with at
\* least one answer, the key holds the encoding of that packet with expiry =
\* the time of the refresh + the TTL of the first answer, order is as before,
\* and no other entry has changed (so it is so when the call returns)
C27_RefreshReplacesInPlace ==
    [][(ret'.op = "refresh" /\ ret'.outcome = "ok" /\ ret'.packet[1].answers # <<>>)
       => /\ ret'.key \in DOMAIN cache
          /\ DOMAIN cache' = DOMAIN cache
          /\ cache'[ret'.key].response
                = DnsPacket_write(ret'.packet[1], ByteBuffer_new).buffer
          /\ cache'[ret'.key].expiry = now + ret'.packet[1].answers[1].ttl
          /\ order' = order
          /\ SameButFor(cache', cache, ret'.key)]_vars

\* a key that is not the last of order was refreshed from a packet whose two
\* answers differ in TTL, and the entry was inserted with another TTL than
\* the first answer's
C27_Witness ==
    /\ ret.op = "refresh" /\ ret.outcome = "ok"
    /\ Len(ret.packet[1].answers) = 2
    /\ ret.packet[1].answers[1].ttl # ret.packet[1].answers[2].ttl
    /\ Len(order) > 1 /\ order[1] = ret.key
    /\ ret.key \in DOMAIN cache
    /\ cache[ret.key].ttl # ret.packet[1].answers[1].ttl
    /\ cache[ret.key].expiry = now

\* C28: no step of update_expired adds or removes a key or changes order;
\* the keys it goes through are those expired when the call started; and an
\* entry changes only in the round of its own key, when that key is one of
\* them and its resolution returned a packet with an answer: the entries
\* that were not expired, and the expired entries whose resolution failed
\* or had no answer, are left as they were and stay in the map
C28_UpdateExpiredFrame ==
    [][(updating \/ updating')
       => /\ DOMAIN cache' = DOMAIN cache
          /\ order' = order
          /\ (~updating) => expired_keys' = {k \in DOMAIN cache : cache[k].expiry < now}
          /\ updating => expired_keys' \subseteq expired_keys
          /\ \A k \in DOMAIN cache :
                cache'[k] # cache[k]
                    => /\ k \in expired_keys
                       /\ ret'.op = "refresh" /\ ret'.key = k
                       /\ ret'.outcome = "ok"
                       /\ ret'.packet[1].answers # <<>>]_vars

\* the resolution of an expired key has failed or had no answer, and the key
\* is still in the map, expired, next to an entry that is not expired
C28_Witness ==
    /\ ret.op = "refresh"
    /\ ret.outcome = "err" \/ ret.packet[1].answers = <<>>
    /\ ret.key \in DOMAIN cache
    /\ cache[ret.key].expiry < now
    /\ \E k \in DOMAIN cache : cache[k].expiry >= now

\* the ways the refresh of a key fails: the last segment of the key is no
\* number, or a call of lookup fails
RefreshFailures == {"parse", "bind", "send_to", "recv_from", "from_buffer"}

\* C29: when the refresh of an expired key fails, the update thread skips
\* the key and goes on with the rest of the keys: it is alive, the cache is
\* as it was, and the mutex is not poisoned, so that the later lock() of
\* every thread succeeds
C29_FailedRefreshIsSkipped ==
    [][(ret' # ret /\ ret'.op = "refresh" /\ ret'.outcome \in RefreshFailures)
       => /\ rpc' = "keys"
          /\ ~mutex'.poisoned
          /\ mutex'.locked
          /\ cache' = cache /\ order' = order]_vars

\* C30: the question update_expired resolves for the fingerprint of a
\* question is that question: the same name, names with '-' included, and
\* the same type
C30_FingerprintGivesQuestionBack ==
    ret.op = "refresh_question"
        => /\ ret.val.name = ret.args[1].name
           /\ ret.val.qtype = ret.args[1].qtype

(***************************************************************************)
(* Properties of the descent                                               *)
(***************************************************************************)
\* the question of the query numbered i of qs
QueryQuestion(qs, i) == Decoded(qs[i].data).val.questions[1]

\* the response res, received for the innermost call, is no terminal one
\* and has the address of a name server of its zone
HasGlue(res, call) ==
    /\ ~Terminal(res)
    /\ GluePlaces(res.authorities, res.resources, call.qname) # {}

\* C31: when an upstream response is not terminal and holds the address of
\* a matching name server, no nested resolution is started, and the query
\* sent next, if one is sent, goes to that address with the qname and the
\* qtype of the call
C31_GlueIsFollowed ==
    [][LookupReceives =>
        \E r \in {Decoded(ret'.reply[1])} :
            (r.ok /\ HasGlue(r.val, stack[Len(stack)]))
                => /\ Len(stack') <= Len(stack)
                   /\ Len(queries') <= Len(queries) + 1
                   /\ queries' # queries =>
                        /\ Len(stack') = Len(stack)
                        /\ queries'[Len(queries')].server
                             = r.val.resources[CHOOSE j \in GluePlaces(r.val.authorities,
                                    r.val.resources, stack[Len(stack)].qname) :
                                 \A k \in GluePlaces(r.val.authorities, r.val.resources,
                                    stack[Len(stack)].qname) : j <= k].addr
                        /\ QueryQuestion(queries', Len(queries')).name
                             = stack[Len(stack)].qname
                        /\ QueryQuestion(queries', Len(queries')).qtype
                             = stack[Len(stack)].qtype]_vars

\* lookup waits for the reply to a query it sent to the address 10.0.0.1,
\* which the referral it received last gave for the name server
C31_Witness ==
    /\ hpc = "lookup"
    /\ ret.reply # <<>>
    /\ Decoded(ret.reply[1]).ok
    /\ HasGlue(Decoded(ret.reply[1]).val, stack[Len(stack)])
    /\ Len(queries) >= 2
    /\ queries[Len(queries)].server = <<10, 0, 0, 1>>
    /\ queries[Len(queries) - 1].server = root_server

\* the places in the authority section of the NS records of a zone that
\* ends qname
NsPlaces(res, qname) ==
    {i \in 1..Len(res.authorities) :
        /\ res.authorities[i].type = "NS"
        /\ res.authorities[i].ns \in MatchedTargets(<<res.authorities[i]>>, qname)}

\* the response res, received for the innermost call, is no terminal one
\* and has no address of a name server of its zone
HasNoGlue(res, call) ==
    /\ ~Terminal(res)
    /\ GluePlaces(res.authorities, res.resources, call.qname) = {}

\* the places of the A records among the answers of res
APlaces(res) == {i \in 1..Len(res.answers) : res.answers[i].type = "A"}

\* the least element of a set of numbers
Least(S) == CHOOSE i \in S : \A j \in S : i <= j

\* the resolution ends: handle_query has the response res of its call
ReturnsToHandler(res) ==
    /\ ret'.op = "resolved" /\ ret'.val = <<res>>
    /\ stack' = <<>> /\ queries' = queries

\* the resolution ends in the next lookup: its socket is not bound, or its
\* send_to fails
LookupNotSent == ret'.op \in {"servfail", "lookup"} /\ ret'.outcome \in {"bind", "send_to"}

\* C32: on a non-terminal response without glue, (1) with a matching NS
\* record the resolver starts a nested call for the first matching target as
\* an A query at the root server, keeping the response; (2) without one the
\* call returns the response; and when a nested call returns a response,
\* (3) with an A answer the outer call goes on at that address with its own
\* question, (4) without one the outer call returns the response it kept;
\* in (1) and (3) the query is sent unless the socket calls of lookup fail
C32_NestedDescent ==
    [][LookupReceives =>
        \E r \in {Decoded(ret'.reply[1])} :
        \E call \in {stack[Len(stack)]} :
            /\ (r.ok /\ HasNoGlue(r.val, call) /\ NsPlaces(r.val, call.qname) # {})
                => /\ queries' = queries => LookupNotSent
                   /\ queries' # queries =>
                           /\ Len(stack') = Len(stack) + 1
                           /\ stack'[Len(stack)] = [call EXCEPT !.res = <<r.val>>]
                           /\ stack'[Len(stack')].qname
                                = r.val.authorities[Least(NsPlaces(r.val, call.qname))].ns
                           /\ stack'[Len(stack')].qtype = QT_A
                           /\ Len(queries') = Len(queries) + 1
                           /\ queries'[Len(queries')].server = root_server
                           /\ QueryQuestion(queries', Len(queries'))
                                = DnsQuestion_new(stack'[Len(stack')].qname, QT_A)
            /\ (r.ok /\ HasNoGlue(r.val, call) /\ NsPlaces(r.val, call.qname) = {}
                    /\ Len(stack) = 1)
                => ReturnsToHandler(r.val)
            /\ (r.ok /\ Len(stack) = 2 /\ APlaces(r.val) # {}
                    /\ (Terminal(r.val)
                         \/ (HasNoGlue(r.val, call) /\ NsPlaces(r.val, call.qname) = {})))
                => /\ queries' = queries => LookupNotSent
                   /\ queries' # queries =>
                           /\ Len(stack') = 1
                           /\ Len(queries') = Len(queries) + 1
                           /\ queries'[Len(queries')].server = r.val.answers[Least(APlaces(r.val))].addr
                           /\ QueryQuestion(queries', Len(queries'))
                                = DnsQuestion_new(stack[1].qname, stack[1].qtype)
            /\ (r.ok /\ Len(stack) = 2 /\ APlaces(r.val) = {}
                    /\ (Terminal(r.val)
                         \/ (HasNoGlue(r.val, call) /\ NsPlaces(r.val, call.qname) = {})))
                => ReturnsToHandler(stack[1].res[1])]_vars

\* a nested call for the name server "b" found its address, and the outer
\* call has sent its question "a" to that address
C32_Witness ==
    /\ hpc = "lookup"
    /\ Len(stack) = 1
    /\ Len(queries) = 3
    /\ queries[2].server = root_server
    /\ QueryQuestion(queries, 2) = DnsQuestion_new(<<98>>, QT_A)
    /\ queries[3].server = <<127, 0, 0, 1>>
    /\ QueryQuestion(queries, 3) = QueryQuestion(queries, 1)

(***************************************************************************)
(* Properties of the outbound port                                         *)
(***************************************************************************)
\* C33: no lookup of a thread fails to bind port 43210 while the other
\* thread is inside lookup with its socket bound: neither the update
\* thread's while the main thread resolves, nor the main thread's while the
\* update thread resolves
C33_ResolverCallsSerialized ==
    [][/\ ~(hpc = "lookup" /\ ret' # ret /\ ret'.op = "refresh" /\ ret'.outcome = "bind")
       /\ ~(rpc = "lookup" /\ ret' # ret /\ ret'.op = "servfail" /\ ret'.outcome = "bind")
      ]_vars

(***************************************************************************)
(* Properties of compressed names                                          *)
(***************************************************************************)
\* C34: read_qname of a name that is a chain of k compression pointers and
\* a label returns the label when k <= 5, with the position after the first
\* pointer, and the error MalformedName when k >= 6; on a frame whose
\* pointers form a cycle it returns that error as well
C34_FivePointersAtMost ==
    /\ ret.op = "read_chain"
        => IF ret.args[1] <= 5
           THEN /\ ret.val.ok
                /\ ret.val.val = <<97>>
                /\ ret.val.b.position = IF ret.args[1] = 0 THEN 3 ELSE 2
           ELSE ~ret.val.ok /\ ret.val.err = "MalformedName"
    /\ ret.op = "read_cycle" => (~ret.val.ok /\ ret.val.err = "MalformedName")

\* a name of exactly 5 pointers has been read
C34_Witness == ret.op = "read_chain" /\ ret.args[1] = 5 /\ ret.val.ok

(***************************************************************************)
(* Properties of the entries                                               *)
(***************************************************************************)
\* C35: whenever an entry is written, by insert (from_packet), by update or
\* by update_expired, its expiry minus its ttl field is the time of the
\* write; the entries are not written otherwise, so that it is so at every
\* time
C35_ExpiryIsWriteTimePlusTtl ==
    [][\A k \in DOMAIN cache' :
          (k \notin DOMAIN cache \/ cache'[k] # cache[k])
              => cache'[k].expiry - cache'[k].ttl = now]_vars

(***************************************************************************)
(* Properties of the loaded cache                                          *)
(***************************************************************************)
\* C36: once ThreadSafeDnsCache::new has returned, and after every later
\* operation, the cache holds at most the configured max_size entries and
\* order lists exactly the keys of the entries, each once
C36_LoadedCacheIsWellFormed ==
    hpc = "recv"
        => /\ Cardinality(DOMAIN cache) <= max_size
           /\ {order[i] : i \in 1..Len(order)} = DOMAIN cache
           /\ Len(order) = Cardinality(DOMAIN cache)

\* C37: the snapshot of a cache reads back as that cache: from_toml of the
\* document to_toml made of it has the same entries (response, expiry and
\* ttl of each key), the same order and the same max_size
C37_SnapshotRoundTrip ==
    ret.op = "save"
        => \E read \in {DnsCache_from_toml(file[1])} :
            /\ read # <<>>
            /\ DOMAIN read[1].cache = DOMAIN cache
            /\ \A k \in DOMAIN cache :
                  /\ \A i \in 0..(FrameSize - 1) :
                        Frame_get(read[1].cache[k].response, i) = Frame_get(cache[k].response, i)
                  /\ read[1].cache[k].expiry = cache[k].expiry
                  /\ read[1].cache[k].ttl = cache[k].ttl
            /\ read[1].order = order
            /\ read[1].max_size = max_size

\* a cache of two entries, of which one was updated, has been saved
C37_Witness ==
    /\ ret.op = "save"
    /\ Len(order) = 2
    /\ \E k \in DOMAIN cache : cache[k].ttl # cache[k].expiry
    /\ cache[order[1]].response # cache[order[2]].response

(***************************************************************************)
(* Properties of the header counts                                         *)
(***************************************************************************)
\* C38: the datagram handle_query sends on a cache miss has QDCOUNT,
\* ANCOUNT, NSCOUNT and ARCOUNT equal to the numbers of questions, answers,
\* authorities and additional records of the response it was encoded from,
\* and decodes to those sections.
C38_SentCountsMatchSections ==
    (/\ ret.op \in {"resolved", "servfail", "formerr"}
     /\ ret.packet # <<>>
     /\ sent # <<>>)
        => \E response \in {ret.packet[1]} :
           \E d \in {Decoded(sent[Len(sent)].data)} :
            /\ d.ok
            /\ d.val.header.questions = Len(response.questions)
            /\ d.val.header.answers = Len(response.answers)
            /\ d.val.header.authoritative_entries = Len(response.authorities)
            /\ d.val.header.resource_entries = Len(response.resources)
            /\ d.val.questions = response.questions
            /\ d.val.answers = response.answers
            /\ d.val.authorities = response.authorities
            /\ d.val.resources = response.resources

(***************************************************************************)
(* Properties of the responses served from the cache                       *)
(***************************************************************************)
\* C39: the response served from the cache for the fingerprint k carries the
\* question and the records of the response the entry under k was created
\* from: its first question has the fingerprint k, and its sections encode
\* to the section bytes of the frame from_packet wrote of that response.
C39_HitCarriesResolvedSections ==
    (ret.op = "hit" /\ ~panicked /\ ret.packet # <<>> /\ ret.val # <<>>)
        => \E served \in {ret.packet[1]} : \E entry \in {ret.val[1]} :
            /\ served.questions # <<>>
            /\ handle_query_key(served.questions[1]) = ret.key
            /\ \A i \in 12..(FrameSize - 1) :
                  Frame_get(Encoded(served), i) = Frame_get(entry.response, i)

(***************************************************************************)
(* Properties of the length of the descent                                 *)
(***************************************************************************)
\* C40: recursive_lookup terminates whatever the upstream servers reply, so
\* it is never again where it has been for the same request: in its
\* outermost call, waiting for the reply to a query (server, qname, qtype)
\* it has sent before. The state of the outermost call is ns, qname and
\* qtype, which are in the query; from a state it is in for the second time,
\* the replies that brought it back bring it back without end.
C40_DescentNeverRepeats ==
    (~panicked /\ hpc = "lookup" /\ Len(stack) = 1)
        => \A i \in 1..Len(queries) : \A j \in 1..Len(queries) :
                i < j => queries[i] # queries[j]

====
